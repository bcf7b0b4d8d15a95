------------------------------ MODULE NatProofs ------------------------------
(***************************************************************************)
(* Theorems about Nat, for any number of threads, flows, ports and heap    *)
(* chunks, whatever the threads do to the list that they share.            *)
(***************************************************************************)
EXTENDS Nat, TLAPS, FiniteSetTheorems

(* How a step of a thread moves it, seen from the packet buffer.           *)
Keeps == pktInBuf' = pktInBuf /\ InSection' = InSection

Enters(t) ==
  /\ pktInBuf < MAX_PKT_IN_BUF
  /\ pktInBuf' = pktInBuf + 1
  /\ t \notin InSection
  /\ InSection' = InSection \cup {t}

Leaves(t) ==
  /\ pktInBuf' = pktInBuf - 1
  /\ t \in InSection
  /\ InSection' = InSection \ {t}

BufferInv ==
  /\ pktInBuf \in Int
  /\ pc \in [Threads -> Labels]
  /\ BufferCount

(* A step inside the buffer, or outside of it, keeps the section as it is. *)
LEMMA MoveKeeps ==
  ASSUME pc \in [Threads -> Labels], NEW t \in Threads, NEW b,
         pc' = [pc EXCEPT ![t] = b],
         pc[t] \in InBuffer <=> b \in InBuffer
  PROVE  InSection' = InSection
  BY DEF InSection

LEMMA CrashKeeps ==
  ASSUME NEW why, Crash(why)
  PROVE  Keeps /\ pc' = pc
  BY DEF Crash, Keeps, InSection

(* The steps before the buffer is entered.                                 *)
LEMMA OutsideSteps ==
  ASSUME pc \in [Threads -> Labels], NEW t \in Threads,
         Receive(t) \/ DropOther(t) \/ DropFull(t)
  PROVE  Keeps /\ pc' \in [Threads -> Labels]
<1>1. CASE Receive(t)
  <2>1. pc[t] = "idle" /\ pc' = [pc EXCEPT ![t] = "recv"] /\ pktInBuf' = pktInBuf
    BY <1>1 DEF Receive, At, Goto
  <2>2. InSection' = InSection
    BY <2>1, MoveKeeps DEF InBuffer
  <2> QED
    BY <2>1, <2>2 DEF Keeps, Labels
<1>2. CASE DropOther(t) \/ DropFull(t)
  <2>1. pc[t] = "recv" /\ pc' = [pc EXCEPT ![t] = "done"] /\ pktInBuf' = pktInBuf
    BY <1>2 DEF DropOther, DropFull, At, Verdict
  <2>2. InSection' = InSection
    BY <2>1, MoveKeeps DEF InBuffer
  <2> QED
    BY <2>1, <2>2 DEF Keeps, Labels
<1> QED
  BY <1>1, <1>2

(* The steps inside the buffer: from a label of InBuffer to another one,   *)
(* or the process crashes.                                                 *)
InsideStep(t) ==
  \/ StartExpiry(t) \/ ReadClock(t) \/ ScanEntry(t) \/ NextEntry(t) \/ EndScan(t)
  \/ Unlink(t) \/ Unmark(t) \/ Free(t)
  \/ StartOutbound(t) \/ SearchHit(t) \/ SearchOn(t)
  \/ Append(t) \/ AppendFill(t) \/ NewHead(t) \/ HeadFill(t)
  \/ PickPort(t) \/ SetEntry(t)
  \/ StartInbound(t) \/ FindHit(t) \/ FindOn(t)
  \/ StartPrint(t) \/ PrintEntry(t) \/ EndPrint(t)

LEMMA InsideMove ==
  ASSUME pc \in [Threads -> Labels], NEW t \in Threads, InsideStep(t)
  PROVE  /\ pktInBuf' = pktInBuf
         /\ pc[t] \in InBuffer
         /\ \/ pc' = pc
            \/ \E b \in InBuffer : pc' = [pc EXCEPT ![t] = b]
<1> USE DEF At, Goto, InBuffer
<1>1. CASE StartExpiry(t) \/ ReadClock(t) \/ EndScan(t) \/ StartOutbound(t) \/ StartInbound(t)
  BY <1>1 DEF StartExpiry, ReadClock, EndScan, StartOutbound, StartInbound
<1>2. CASE ScanEntry(t) \/ NextEntry(t) \/ SearchOn(t) \/ FindOn(t)
  BY <1>2 DEF ScanEntry, NextEntry, SearchOn, FindOn
<1>3. CASE SearchHit(t) \/ FindHit(t)
  BY <1>3 DEF SearchHit, FindHit, Translate
<1>4. CASE Unlink(t) \/ Unmark(t) \/ Free(t)
  BY <1>4 DEF Unlink, Unmark, Free, Crash
<1>5. CASE Append(t) \/ NewHead(t)
  BY <1>5 DEF Append, NewHead, Crash
<1>6. CASE AppendFill(t) \/ HeadFill(t)
  BY <1>6 DEF AppendFill, HeadFill, Crash
<1>7. CASE PickPort(t) \/ SetEntry(t)
  BY <1>7 DEF PickPort, SetEntry, Translate, Crash
<1>8. CASE StartPrint(t) \/ PrintEntry(t) \/ EndPrint(t)
  BY <1>8 DEF StartPrint, PrintEntry, EndPrint
<1> QED
  BY <1>1, <1>2, <1>3, <1>4, <1>5, <1>6, <1>7, <1>8 DEF InsideStep

LEMMA InsideSteps ==
  ASSUME pc \in [Threads -> Labels], NEW t \in Threads, InsideStep(t)
  PROVE  Keeps /\ pc' \in [Threads -> Labels]
<1>1. CASE pc' = pc
  BY <1>1, InsideMove DEF Keeps, InSection
<1>2. CASE \E b \in InBuffer : pc' = [pc EXCEPT ![t] = b]
  <2>1. PICK b \in InBuffer : pc' = [pc EXCEPT ![t] = b]
    BY <1>2
  <2>2. InSection' = InSection
    BY <2>1, InsideMove, MoveKeeps
  <2> QED
    BY <2>1, <2>2, InsideMove DEF Keeps, Labels
<1> QED
  BY <1>1, <1>2, InsideMove

(* add_pkt_buf() is the only way in, rm_pkt_buf() the only way out.        *)
LEMMA EnterStep ==
  ASSUME pc \in [Threads -> Labels], NEW t \in Threads, AddPktBuf(t)
  PROVE  Enters(t) /\ pc' \in [Threads -> Labels]
<1>1. pc[t] = "recv" /\ pc' = [pc EXCEPT ![t] = "expire"]
  BY DEF AddPktBuf, At, Goto
<1>2. t \notin InSection /\ InSection' = InSection \cup {t}
  BY <1>1 DEF InSection, InBuffer
<1> QED
  BY <1>1, <1>2 DEF AddPktBuf, Enters, Labels, InBuffer

LEMMA LeaveStep ==
  ASSUME pc \in [Threads -> Labels], NEW t \in Threads,
         DropUnknown(t) \/ Accept(t)
  PROVE  Leaves(t) /\ pc' \in [Threads -> Labels]
<1>1. pc[t] \in {"find", "token"} /\ pc' = [pc EXCEPT ![t] = "done"]
  BY DEF DropUnknown, Accept, At, Verdict
<1>2. t \in InSection /\ InSection' = InSection \ {t}
  BY <1>1 DEF InSection, InBuffer
<1> QED
  BY <1>1, <1>2 DEF DropUnknown, Accept, Leaves, Labels

-----------------------------------------------------------------------------

LEMMA SectionFinite ==
  IsFiniteSet(InSection) /\ Cardinality(InSection) \in Nat
<1>1. InSection \subseteq Threads
  BY DEF InSection
<1> QED
  BY <1>1, ThreadsAssumption, FS_Subset, FS_CardinalityType

LEMMA KeepsCount ==
  ASSUME BufferInv, Keeps
  PROVE  BufferCount' /\ pktInBuf' \in Int
  BY DEF BufferInv, BufferCount, Keeps

LEMMA EntersCount ==
  ASSUME BufferInv, NEW t \in Threads, Enters(t)
  PROVE  BufferCount' /\ pktInBuf' \in Int
<1>1. Cardinality(InSection \cup {t}) = Cardinality(InSection) + 1
  BY SectionFinite, FS_AddElement DEF Enters
<1>2. pktInBuf \in Int /\ pktInBuf = Cardinality(InSection)
  BY DEF BufferInv, BufferCount
<1>3. pktInBuf' = Cardinality(InSection')
  BY <1>1, <1>2 DEF Enters
<1>4. pktInBuf' <= MAX_PKT_IN_BUF /\ pktInBuf' \in Int
  BY <1>2, BufferAssumption DEF Enters
<1> QED
  BY <1>3, <1>4 DEF BufferCount

LEMMA LeavesCount ==
  ASSUME BufferInv, NEW t \in Threads, Leaves(t)
  PROVE  BufferCount' /\ pktInBuf' \in Int
<1>1. Cardinality(InSection \ {t}) = Cardinality(InSection) - 1
  BY SectionFinite, FS_RemoveElement DEF Leaves
<1>2. pktInBuf \in Int /\ pktInBuf = Cardinality(InSection) /\ pktInBuf <= MAX_PKT_IN_BUF
  BY DEF BufferInv, BufferCount
<1>3. pktInBuf' = Cardinality(InSection')
  BY <1>1, <1>2 DEF Leaves
<1>4. pktInBuf' <= MAX_PKT_IN_BUF /\ pktInBuf' \in Int
  BY <1>2, BufferAssumption DEF Leaves
<1> QED
  BY <1>3, <1>4 DEF BufferCount

LEMMA BufferInit == Init => BufferInv
<1> SUFFICES ASSUME Init PROVE BufferInv
  OBVIOUS
<1>1. InSection = {}
  BY DEF Init, InSection, InBuffer
<1>2. Cardinality(InSection) = 0
  BY <1>1, FS_EmptySet
<1>3. pktInBuf = 0 /\ pc \in [Threads -> Labels]
  BY DEF Init, Labels
<1> QED
  BY <1>2, <1>3, BufferAssumption DEF BufferInv, BufferCount

LEMMA BufferStep == BufferInv /\ [Next]_vars => BufferInv'
<1> SUFFICES ASSUME BufferInv, [Next]_vars PROVE BufferInv'
  OBVIOUS
<1>1. pc \in [Threads -> Labels]
  BY DEF BufferInv
<1>2. CASE UNCHANGED vars \/ Tick
  <2>1. Keeps /\ pc' = pc
    BY <1>2 DEF vars, Tick, Keeps, InSection
  <2> QED
    BY <1>1, <2>1, KeepsCount DEF BufferInv
<1>3. ASSUME NEW t \in Threads, Receive(t) \/ DropOther(t) \/ DropFull(t)
      PROVE  BufferInv'
  BY <1>1, <1>3, OutsideSteps, KeepsCount DEF BufferInv
<1>4. ASSUME NEW t \in Threads, InsideStep(t) PROVE BufferInv'
  BY <1>1, <1>4, InsideSteps, KeepsCount DEF BufferInv
<1>5. ASSUME NEW t \in Threads, AddPktBuf(t) PROVE BufferInv'
  BY <1>1, <1>5, EnterStep, EntersCount DEF BufferInv
<1>6. ASSUME NEW t \in Threads, DropUnknown(t) \/ Accept(t) PROVE BufferInv'
  BY <1>1, <1>6, LeaveStep, LeavesCount DEF BufferInv
<1> QED
  BY <1>2, <1>3, <1>4, <1>5, <1>6 DEF Next, Handle, InsideStep

(* add_pkt_buf() and rm_pkt_buf() pair up on every path of Callback(), for *)
(* any number of threads: pkt_in_buf counts the packets in the buffer and  *)
(* never exceeds MAX_PKT_IN_BUF, even when the list of the translation     *)
(* table is corrupted by the races on it.                                  *)
THEOREM BufferIsBounded == Spec => []BufferCount
<1>1. BufferInv => BufferCount
  BY DEF BufferInv
<1> QED
  BY <1>1, BufferInit, BufferStep, PTL DEF Spec

-----------------------------------------------------------------------------

(* What a thread's local variables are good for, by where the thread is:   *)
(* the pointers that a step follows are not NULL, and the port that it     *)
(* marks is one.  What the chunks hold is another matter.                  *)
Fits(place, l) ==
  /\ place \in {"next", "unlink", "search", "append", "appendFill"} => l.cur \in Cells
  /\ place \in {"unmark", "free", "appendFill", "headFill"} => l.new \in Cells
  /\ place \in {"search", "append", "appendFill", "newHead", "headFill",
                "pickPort", "setEntry"} => l.pkt.dir = "out"
  /\ place = "find" => l.pkt.dir = "in"
  /\ place = "setEntry" => l.port \in Ports

LocalsFit == \A t \in Threads : Fits(pc[t], loc[t])

TypeInv == TypeOK /\ LocalsFit

(* A thread moves to the place `b` with the locals `m`.                    *)
LEMMA ThreadMoves ==
  ASSUME TypeInv, NEW t \in Threads, NEW b \in Labels, NEW m \in Locals, Fits(b, m),
         pc' = [pc EXCEPT ![t] = b], loc' = [loc EXCEPT ![t] = m]
  PROVE  pc' \in [Threads -> Labels] /\ loc' \in [Threads -> Locals] /\ LocalsFit'
<1>1. pc \in [Threads -> Labels] /\ loc \in [Threads -> Locals]
  BY DEF TypeInv, TypeOK
<1>2. ASSUME NEW u \in Threads PROVE Fits(pc[u], loc[u])'
  <2>1. CASE u = t
    BY <1>1, <2>1 DEF Fits
  <2>2. CASE u # t
    <3>1. pc'[u] = pc[u] /\ loc'[u] = loc[u] /\ Fits(pc[u], loc[u])
      BY <1>1, <2>2 DEF TypeInv, LocalsFit
    <3> QED
      BY <3>1 DEF Fits
  <2> QED
    BY <2>1, <2>2
<1> QED
  BY <1>1, <1>2 DEF LocalsFit

LEMMA NoLocalsType == NoLocals \in Locals /\ NoLocals.pkt \in Packets \cup {NoPacket}
  BY DEF NoLocals, Locals

LEMMA PacketKinds ==
  ASSUME NEW pkt \in Packets \cup {NoPacket}
  PROVE  /\ pkt.dir = "out" => pkt.flow \in Flows
         /\ pkt.dir = "in" => pkt.port \in Ports
  BY DEF Packets, NoPacket

LEMMA TypeInit == Init => TypeInv
<1> SUFFICES ASSUME Init PROVE TypeInv
  OBVIOUS
<1>1. pc \in [Threads -> Labels] /\ loc \in [Threads -> Locals] /\ LocalsFit
  BY NoLocalsType DEF Init, Labels, LocalsFit, Fits
<1>2. heap \in [Cells -> Cell]
  BY DEF Init, Cell
<1>3. porttb \in [Ports -> BOOLEAN]
  BY Zenon DEF Init
<1>4. now \in Nat /\ natTable \in Cells \cup {NULL} /\ pktInBuf \in Int
      /\ crashed \in {"no", "segv", "noport"}
  BY DEF Init
<1> QED
  BY <1>1, <1>2, <1>3, <1>4, Zenon DEF TypeInv, TypeOK

(* The thread gives up its packet, or has translated it.                   *)
LEMMA VerdictTypes ==
  ASSUME TypeInv, NEW t \in Threads, NEW b \in {"print", "done"},
         pc' = [pc EXCEPT ![t] = b], loc' = [loc EXCEPT ![t] = NoLocals]
  PROVE  pc' \in [Threads -> Labels] /\ loc' \in [Threads -> Locals] /\ LocalsFit'
<1>1. b \in Labels /\ Fits(b, NoLocals)
  BY DEF Labels, InBuffer, Fits
<1> QED
  BY <1>1, NoLocalsType, ThreadMoves

(* The steps that leave the shared memory alone.                           *)
LEMMA QuietTypes ==
  ASSUME TypeInv, NEW t \in Threads,
         \/ Receive(t) \/ DropOther(t) \/ AddPktBuf(t) \/ DropFull(t) \/ StartExpiry(t)
         \/ ReadClock(t) \/ ScanEntry(t) \/ NextEntry(t) \/ EndScan(t) \/ StartOutbound(t)
         \/ StartInbound(t) \/ SearchOn(t) \/ FindOn(t) \/ StartPrint(t) \/ PrintEntry(t)
         \/ EndPrint(t) \/ DropUnknown(t) \/ Accept(t)
  PROVE  pc' \in [Threads -> Labels] /\ loc' \in [Threads -> Locals] /\ LocalsFit'
<1>1. /\ pc \in [Threads -> Labels] /\ loc \in [Threads -> Locals] /\ now \in Nat
      /\ natTable \in Cells \cup {NULL} /\ loc[t] \in Locals /\ heap \in [Cells -> Cell]
      /\ Fits(pc[t], loc[t])
  BY DEF TypeInv, TypeOK, LocalsFit
<1>2. CASE Receive(t)
  <2>1. PICK pkt \in Packets :
          loc' = [loc EXCEPT ![t] = [NoLocals EXCEPT !.pkt = pkt, !.tv = now]]
    BY <1>2 DEF Receive
  <2>2. [NoLocals EXCEPT !.pkt = pkt, !.tv = now] \in Locals
    BY <1>1 DEF NoLocals, Locals
  <2>3. Fits("recv", [NoLocals EXCEPT !.pkt = pkt, !.tv = now]) /\ "recv" \in Labels
    BY DEF Fits, Labels
  <2> QED
    BY <1>2, <2>1, <2>2, <2>3, ThreadMoves DEF Receive, Goto
<1>3. CASE DropOther(t) \/ DropFull(t) \/ DropUnknown(t) \/ Accept(t)
  BY <1>3, VerdictTypes DEF DropOther, DropFull, DropUnknown, Accept, Verdict
<1>4. CASE AddPktBuf(t)
  <2>1. PICK stamp \in {loc[t].tv, now} : loc' = [loc EXCEPT ![t].tv = stamp]
    BY <1>4 DEF AddPktBuf
  <2> DEFINE m == [loc[t] EXCEPT !.tv = stamp]
  <2>2. m \in Locals /\ loc' = [loc EXCEPT ![t] = m]
    BY <1>1, <2>1 DEF Locals
  <2>3. Fits("expire", m) /\ "expire" \in Labels
    BY DEF Fits, Labels, InBuffer
  <2> QED
    BY <1>4, <2>2, <2>3, ThreadMoves DEF AddPktBuf, Goto
<1>5. CASE StartExpiry(t) \/ ReadClock(t)
  <2> DEFINE m == IF pc[t] = "expire" THEN [loc[t] EXCEPT !.cur = natTable, !.prev = NULL]
                  ELSE [loc[t] EXCEPT !.snap = now]
             b == IF pc[t] = "expire" THEN "clock" ELSE "scan"
  <2>1. m \in Locals /\ loc' = [loc EXCEPT ![t] = m]
    BY <1>1, <1>5 DEF Locals, StartExpiry, ReadClock, At
  <2>2. Fits(b, m) /\ b \in Labels
    BY DEF Fits, Labels, InBuffer
  <2> QED
    BY <1>5, <2>1, <2>2, ThreadMoves DEF StartExpiry, ReadClock, Goto, At
<1>6. CASE ScanEntry(t)
  <2>1. loc' = [loc EXCEPT ![t] = loc[t]] /\ loc[t].cur \in Cells
    BY <1>1, <1>6 DEF ScanEntry, Locals
  <2>2. PICK b \in {"unlink", "next"} : pc' = [pc EXCEPT ![t] = b]
    BY <1>6 DEF ScanEntry, Goto
  <2>3. Fits(b, loc[t]) /\ b \in Labels
    BY <2>1 DEF Fits, Labels, InBuffer
  <2> QED
    BY <1>1, <2>1, <2>2, <2>3, ThreadMoves
<1>6a. CASE NextEntry(t)
  <2> DEFINE m == [loc[t] EXCEPT !.prev = loc[t].cur, !.cur = heap[loc[t].cur].next]
  <2>1. loc[t].cur \in Cells
    BY <1>1, <1>6a DEF NextEntry, At, Fits
  <2>2. m \in Locals /\ loc' = [loc EXCEPT ![t] = m]
    BY <1>1, <1>6a, <2>1 DEF NextEntry, Locals, Cell
  <2>3. Fits("scan", m) /\ "scan" \in Labels
    BY DEF Fits, Labels, InBuffer
  <2> QED
    BY <1>6a, <2>2, <2>3, ThreadMoves DEF NextEntry, Goto
<1>7. CASE EndScan(t)
  <2>1. loc' = [loc EXCEPT ![t] = loc[t]] /\ pc' = [pc EXCEPT ![t] = "lookup"]
    BY <1>1, <1>7 DEF EndScan, Goto
  <2>2. Fits("lookup", loc[t]) /\ "lookup" \in Labels
    BY DEF Fits, Labels, InBuffer
  <2> QED
    BY <1>1, <2>1, <2>2, ThreadMoves
<1>8. CASE StartOutbound(t)
  <2> DEFINE m == [loc[t] EXCEPT !.cur = natTable, !.prev = NULL]
             b == IF natTable = NULL THEN "newHead" ELSE "search"
  <2>1. m \in Locals /\ loc' = [loc EXCEPT ![t] = m]
    BY <1>1, <1>8 DEF Locals, StartOutbound
  <2>2. Fits(b, m) /\ b \in Labels
    BY <1>1, <1>8 DEF Fits, Labels, InBuffer, Locals, StartOutbound
  <2> QED
    BY <1>8, <2>1, <2>2, ThreadMoves DEF StartOutbound, Goto
<1>9. CASE StartInbound(t)
  <2> DEFINE m == [loc[t] EXCEPT !.cur = natTable, !.prev = NULL]
  <2>1. m \in Locals /\ loc' = [loc EXCEPT ![t] = m]
    BY <1>1, <1>9 DEF Locals, StartInbound
  <2>2. Fits("find", m) /\ "find" \in Labels
    BY <1>1, <1>9 DEF Fits, Labels, InBuffer, Locals, StartInbound
  <2> QED
    BY <1>9, <2>1, <2>2, ThreadMoves DEF StartInbound, Goto
<1>10. CASE SearchOn(t) \/ FindOn(t)
  <2> DEFINE e == heap[loc[t].cur]
             m == [loc[t] EXCEPT !.cur = e.next]
  <2>1. loc[t].cur \in Cells /\ e \in Cell /\ pc[t] \in {"search", "find"}
    BY <1>1, <1>10 DEF SearchOn, FindOn, At, Locals, Fits
  <2>2. CASE SearchOn(t) /\ e.next = NULL
    <3>1. loc' = [loc EXCEPT ![t] = loc[t]] /\ pc' = [pc EXCEPT ![t] = "append"]
      BY <1>1, <2>2 DEF SearchOn, Goto
    <3>2. pc[t] = "search"
      BY <2>2 DEF SearchOn, At
    <3>3. Fits("append", loc[t]) /\ "append" \in Labels
      BY <1>1, <2>1, <3>2 DEF Fits, Labels, InBuffer
    <3> QED
      BY <1>1, <3>1, <3>3, ThreadMoves
  <2>3. CASE FindOn(t) \/ e.next # NULL
    <3>1. loc' = [loc EXCEPT ![t] = m] /\ pc' = [pc EXCEPT ![t] = pc[t]]
      BY <1>1, <1>10, <2>1, <2>3 DEF SearchOn, FindOn
    <3>2. m \in Locals
      BY <1>1, <2>1 DEF Locals, Cell
    <3>3. pc[t] = "search" => m.cur \in Cells
      BY <1>1, <1>10, <2>1, <2>3 DEF FindOn, At, Locals, Cell
    <3>4. Fits(pc[t], m) /\ pc[t] \in Labels
      BY <1>1, <2>1, <3>3 DEF Fits, Locals
    <3> QED
      BY <3>1, <3>2, <3>4, ThreadMoves
  <2> QED
    BY <1>10, <2>2, <2>3
<1>11. CASE StartPrint(t)
  <2> DEFINE m == [loc[t] EXCEPT !.cur = natTable]
  <2>1. m \in Locals /\ loc' = [loc EXCEPT ![t] = m]
    BY <1>1, <1>11 DEF Locals, StartPrint
  <2>2. Fits("printing", m) /\ "printing" \in Labels
    BY DEF Fits, Labels, InBuffer
  <2> QED
    BY <1>11, <2>1, <2>2, ThreadMoves DEF StartPrint, Goto
<1>12. CASE PrintEntry(t)
  <2> DEFINE m == [loc[t] EXCEPT !.cur = heap[loc[t].cur].next]
  <2>1. loc[t].cur \in Cells /\ pc[t] = "printing"
    BY <1>1, <1>12 DEF PrintEntry, At, Locals
  <2>2. m \in Locals /\ loc' = [loc EXCEPT ![t] = m] /\ pc' = [pc EXCEPT ![t] = "printing"]
    BY <1>1, <1>12, <2>1 DEF PrintEntry, Locals, Cell
  <2>3. Fits("printing", m) /\ "printing" \in Labels
    BY DEF Fits, Labels, InBuffer
  <2> QED
    BY <2>2, <2>3, ThreadMoves
<1>13. CASE EndPrint(t)
  <2>1. loc' = [loc EXCEPT ![t] = loc[t]] /\ pc' = [pc EXCEPT ![t] = "token"]
    BY <1>1, <1>13 DEF EndPrint, Goto
  <2>2. Fits("token", loc[t]) /\ "token" \in Labels
    BY DEF Fits, Labels, InBuffer
  <2> QED
    BY <1>1, <2>1, <2>2, ThreadMoves
<1> QED
  BY <1>2, <1>3, <1>4, <1>5, <1>6, <1>6a, <1>7, <1>8, <1>9, <1>10, <1>11, <1>12, <1>13

(* The steps that write the list or the marks, one by one.                 *)
LEMMA HitTypes ==
  ASSUME TypeInv, NEW t \in Threads, SearchHit(t) \/ FindHit(t)
  PROVE  TypeInv'
<1>1. /\ loc[t] \in Locals /\ heap \in [Cells -> Cell] /\ loc[t].cur \in Cells
  BY DEF TypeInv, TypeOK, LocalsFit, Fits, SearchHit, FindHit, At, Locals
<1>2. heap' = [heap EXCEPT ![loc[t].cur].accesstv = loc[t].tv]
  BY DEF SearchHit, FindHit
<1>3. heap' \in [Cells -> Cell]
  BY <1>1, <1>2 DEF Cell, Locals
<1>4. pc' = [pc EXCEPT ![t] = "print"] /\ loc' = [loc EXCEPT ![t] = NoLocals]
  BY DEF SearchHit, FindHit, Translate, Goto
<1>5. pc' \in [Threads -> Labels] /\ loc' \in [Threads -> Locals] /\ LocalsFit'
  BY <1>4, VerdictTypes
<1>6. UNCHANGED <<now, natTable, porttb, pktInBuf, crashed>>
  BY DEF SearchHit, FindHit
<1> QED
  BY <1>3, <1>5, <1>6, Zenon DEF TypeInv, TypeOK

(* Any step that changes nothing but the heap, the head of the list and    *)
(* the places and locals of the thread.                                    *)
LEMMA CellTypes ==
  ASSUME TypeInv, NEW t \in Threads, NEW b \in Labels, NEW m \in Locals, Fits(b, m),
         pc' = [pc EXCEPT ![t] = b], loc' = [loc EXCEPT ![t] = m],
         heap' \in [Cells -> Cell], natTable' \in Cells \cup {NULL},
         UNCHANGED <<now, porttb, pktInBuf, crashed>>
  PROVE  TypeInv'
<1>1. pc' \in [Threads -> Labels] /\ loc' \in [Threads -> Locals] /\ LocalsFit'
  BY ThreadMoves
<1> QED
  BY <1>1, Zenon DEF TypeInv, TypeOK

LEMMA CrashTypes ==
  ASSUME TypeInv, NEW why \in {"segv", "noport"}, Crash(why)
  PROVE  TypeInv'
<1>1. /\ UNCHANGED <<now, natTable, heap, porttb, pktInBuf, pc, loc>>
      /\ crashed' \in {"no", "segv", "noport"}
  BY DEF Crash
<1> QED
  BY <1>1 DEF TypeInv, TypeOK, LocalsFit, Fits

LEMMA UnlinkTypes ==
  ASSUME TypeInv, NEW t \in Threads, Unlink(t)
  PROVE  TypeInv'
<1> DEFINE c == loc[t].cur
           after == heap[c].next
           m == [loc[t] EXCEPT !.new = c, !.cur = after]
<1>1. /\ loc \in [Threads -> Locals] /\ loc[t] \in Locals /\ heap \in [Cells -> Cell]
      /\ natTable \in Cells \cup {NULL} /\ c \in Cells /\ after \in Cells \cup {NULL}
  <2>1. pc[t] = "unlink" /\ Fits(pc[t], loc[t])
    BY DEF TypeInv, LocalsFit, Unlink, At
  <2> QED
    BY <2>1 DEF TypeInv, TypeOK, Fits, Cell
<1>2. heap' \in [Cells -> Cell] /\ natTable' \in Cells \cup {NULL}
  <2>1. CASE loc[t].prev = NULL
    BY <1>1, <2>1 DEF Unlink
  <2>2. CASE loc[t].prev # NULL
    <3>1. /\ heap' = [heap EXCEPT ![loc[t].prev].next = after]
          /\ natTable' = natTable /\ loc[t].prev \in Cells
      BY <1>1, <2>2 DEF Unlink, Locals
    <3> QED
      BY <1>1, <3>1 DEF Cell
  <2> QED
    BY <2>1, <2>2
<1>3. m \in Locals /\ loc' = [loc EXCEPT ![t] = m]
  BY <1>1 DEF Unlink, Locals
<1>4. Fits("unmark", m) /\ "unmark" \in Labels
  BY <1>1 DEF Fits, Labels, InBuffer, Locals
<1>5. UNCHANGED <<now, porttb, pktInBuf, crashed>> /\ pc' = [pc EXCEPT ![t] = "unmark"]
  BY DEF Unlink, Goto
<1> QED
  BY <1>2, <1>3, <1>4, <1>5, CellTypes

LEMMA UnmarkTypes ==
  ASSUME TypeInv, NEW t \in Threads, Unmark(t)
  PROVE  TypeInv'
<1>1. /\ loc \in [Threads -> Locals] /\ loc[t] \in Locals /\ heap \in [Cells -> Cell]
      /\ natTable \in Cells \cup {NULL} /\ Fits(pc[t], loc[t]) /\ pc[t] = "unmark"
  BY DEF TypeInv, TypeOK, LocalsFit, Unmark, At
<1>2. CASE Crash("segv")
  BY <1>2, CrashTypes
<1>3. CASE ~Crash("segv")
  <2>1. PICK after \in AfterUnlink(t) : loc' = [loc EXCEPT ![t].cur = after]
    BY <1>3 DEF Unmark
  <2> DEFINE m == [loc[t] EXCEPT !.cur = after]
  <2>2. after \in Cells \cup {NULL}
    BY <1>1, <2>1 DEF AfterUnlink, Locals, Cell
  <2>3. m \in Locals /\ loc' = [loc EXCEPT ![t] = m]
    BY <1>1, <2>1, <2>2 DEF Locals
  <2>4. Fits("free", m) /\ "free" \in Labels
    BY <1>1 DEF Fits, Labels, InBuffer, Locals
  <2>5. /\ UNCHANGED <<now, natTable, heap, pktInBuf, crashed>>
        /\ pc' = [pc EXCEPT ![t] = "free"]
        /\ porttb' = porttb \/ porttb' = [porttb EXCEPT ![heap[loc[t].new].trans] = FALSE]
    BY <1>3 DEF Unmark, Goto
  <2>6. pc' \in [Threads -> Labels] /\ loc' \in [Threads -> Locals] /\ LocalsFit'
    BY <2>3, <2>4, <2>5, ThreadMoves
  <2>7. porttb' \in [Ports -> BOOLEAN]
    BY <2>5, Zenon DEF TypeInv, TypeOK
  <2> QED
    BY <2>5, <2>6, <2>7, Zenon DEF TypeInv, TypeOK
<1> QED
  BY <1>2, <1>3

LEMMA FreeTypes ==
  ASSUME TypeInv, NEW t \in Threads, Free(t)
  PROVE  TypeInv'
<1> DEFINE c == loc[t].new
           m == [loc[t] EXCEPT !.new = NULL]
<1>1. /\ loc \in [Threads -> Locals] /\ loc[t] \in Locals /\ heap \in [Cells -> Cell]
      /\ natTable \in Cells \cup {NULL} /\ c \in Cells
  BY DEF TypeInv, TypeOK, LocalsFit, Fits, Free, At
<1>2. CASE Crash("segv")
  BY <1>2, CrashTypes
<1>3. CASE ~Crash("segv")
  <2>1. /\ heap' = [heap EXCEPT ![c] = Freed(heap[c])] /\ loc' = [loc EXCEPT ![t] = m]
        /\ pc' = [pc EXCEPT ![t] = "scan"]
        /\ UNCHANGED <<now, natTable, porttb, pktInBuf, crashed>>
    BY <1>1, <1>3 DEF Free, Goto
  <2>2. heap' \in [Cells -> Cell]
    BY <1>1, <2>1 DEF Freed, Cell
  <2>3. m \in Locals /\ Fits("scan", m) /\ "scan" \in Labels
    BY <1>1 DEF Fits, Labels, InBuffer, Locals
  <2> QED
    BY <1>1, <2>1, <2>2, <2>3, CellTypes
<1> QED
  BY <1>2, <1>3

LEMMA MallocTypes ==
  ASSUME TypeInv, NEW t \in Threads, Append(t) \/ NewHead(t)
  PROVE  TypeInv'
<1>1. /\ loc[t] \in Locals /\ heap \in [Cells -> Cell] /\ natTable \in Cells \cup {NULL}
      /\ loc \in [Threads -> Locals] /\ Fits(pc[t], loc[t])
  BY DEF TypeInv, TypeOK, LocalsFit
<1>2. CASE Crash("segv")
  BY <1>2, CrashTypes
<1>3. CASE Append(t) /\ ~Crash("segv")
  <2>1. PICK c \in FreeCells :
          /\ heap' = [heap EXCEPT ![c].live = TRUE, ![loc[t].cur].next = c]
          /\ loc' = [loc EXCEPT ![t].new = c]
          /\ Goto(t, "appendFill")
          /\ UNCHANGED <<now, natTable, porttb, pktInBuf, sent, crashed>>
    BY <1>3 DEF Append
  <2> DEFINE m == [loc[t] EXCEPT !.new = c]
             h == [heap EXCEPT ![c].live = TRUE]
  <2>2. c \in Cells /\ loc[t].cur \in Cells /\ loc[t].pkt.dir = "out"
    BY <1>1, <1>3 DEF Append, At, Fits, FreeCells
  <2>3. h \in [Cells -> Cell]
    BY <1>1, <2>2 DEF Cell
  <2>4. heap' = [h EXCEPT ![loc[t].cur].next = c]
    BY <2>1
  <2>5. heap' \in [Cells -> Cell]
    <3> HIDE DEF h
    <3> QED
      BY <2>2, <2>3, <2>4 DEF Cell
  <2>6. m \in Locals /\ Fits("appendFill", m) /\ "appendFill" \in Labels
        /\ loc' = [loc EXCEPT ![t] = m]
    BY <1>1, <2>1, <2>2 DEF Locals, Fits, Labels, InBuffer
  <2> QED
    BY <1>1, <2>1, <2>5, <2>6, CellTypes DEF Goto
<1>4. CASE NewHead(t) /\ ~Crash("segv")
  <2>1. PICK c \in FreeCells :
          /\ heap' = [heap EXCEPT ![c].live = TRUE]
          /\ natTable' = c
          /\ loc' = [loc EXCEPT ![t].new = c]
          /\ Goto(t, "headFill")
          /\ UNCHANGED <<now, porttb, pktInBuf, sent, crashed>>
    BY <1>4 DEF NewHead
  <2> DEFINE m == [loc[t] EXCEPT !.new = c]
  <2>2. c \in Cells /\ loc[t].pkt.dir = "out"
    BY <1>1, <1>4 DEF NewHead, At, Fits, FreeCells
  <2>3. heap' \in [Cells -> Cell] /\ natTable' \in Cells \cup {NULL}
    BY <1>1, <2>1, <2>2 DEF Cell
  <2>4. m \in Locals /\ Fits("headFill", m) /\ "headFill" \in Labels
        /\ loc' = [loc EXCEPT ![t] = m]
    BY <1>1, <2>1, <2>2 DEF Locals, Fits, Labels, InBuffer
  <2> QED
    BY <2>1, <2>3, <2>4, CellTypes DEF Goto
<1> QED
  BY <1>2, <1>3, <1>4

LEMMA FillTypes ==
  ASSUME TypeInv, NEW t \in Threads, AppendFill(t) \/ HeadFill(t)
  PROVE  TypeInv'
<1>1. /\ loc[t] \in Locals /\ heap \in [Cells -> Cell] /\ natTable \in Cells \cup {NULL}
      /\ loc \in [Threads -> Locals] /\ loc[t].new \in Cells /\ loc[t].pkt.dir = "out"
      /\ loc[t].pkt.flow \in Flows
  <2>1. loc[t] \in Locals /\ Fits(pc[t], loc[t])
    BY DEF TypeInv, TypeOK, LocalsFit
  <2>2. pc[t] \in {"appendFill", "headFill"} /\ loc[t].pkt \in Packets \cup {NoPacket}
    BY <2>1 DEF AppendFill, HeadFill, At, Locals
  <2> QED
    BY <2>1, <2>2, PacketKinds DEF TypeInv, TypeOK, Fits
<1>2. CASE Crash("segv")
  BY <1>2, CrashTypes
<1>3. CASE AppendFill(t) /\ ~Crash("segv")
  <2>1. PICK c \in {heap[loc[t].cur].next, loc[t].new} :
          /\ c # NULL
          /\ heap' = [heap EXCEPT ![c].next = NULL, ![c].itn = loc[t].pkt.flow]
          /\ loc' = [loc EXCEPT ![t].cur = c, ![t].head = FALSE]
          /\ Goto(t, "pickPort")
          /\ UNCHANGED <<now, natTable, porttb, pktInBuf, sent, crashed>>
    BY <1>3, ZenonT(60) DEF AppendFill
  <2> DEFINE m == [loc[t] EXCEPT !.cur = c, !.head = FALSE]
  <2>2. c \in Cells
    <3>1. pc[t] = "appendFill" /\ Fits(pc[t], loc[t])
      BY <1>3 DEF AppendFill, At, TypeInv, LocalsFit
    <3>2. loc[t].cur \in Cells
      BY <3>1 DEF Fits
    <3>3. heap[loc[t].cur].next \in Cells \cup {NULL}
      BY <1>1, <3>2 DEF Cell
    <3> QED
      BY <1>1, <2>1, <3>3
  <2>3. heap' \in [Cells -> Cell]
    BY <1>1, <2>1, <2>2, ZenonT(60) DEF Cell
  <2>4. m \in Locals /\ Fits("pickPort", m) /\ "pickPort" \in Labels
        /\ loc' = [loc EXCEPT ![t] = m]
    BY <1>1, <2>1, <2>2 DEF Locals, Fits, Labels, InBuffer
  <2> QED
    BY <1>1, <2>1, <2>3, <2>4, CellTypes DEF Goto
<1>4. CASE HeadFill(t) /\ ~Crash("segv")
  <2>1. PICK c \in {natTable, loc[t].new} :
          /\ c # NULL
          /\ heap' = [heap EXCEPT ![c].next = NULL, ![c].itn = loc[t].pkt.flow]
          /\ loc' = [loc EXCEPT ![t].head = TRUE]
          /\ Goto(t, "pickPort")
          /\ UNCHANGED <<now, natTable, porttb, pktInBuf, sent, crashed>>
    BY <1>4 DEF HeadFill
  <2> DEFINE m == [loc[t] EXCEPT !.head = TRUE]
  <2>2. c \in Cells
    BY <1>1, <2>1
  <2>3. heap' \in [Cells -> Cell]
    BY <1>1, <2>1, <2>2, ZenonT(60) DEF Cell
  <2>4. m \in Locals /\ Fits("pickPort", m) /\ "pickPort" \in Labels
        /\ loc' = [loc EXCEPT ![t] = m]
    BY <1>1, <2>1, <2>2 DEF Locals, Fits, Labels, InBuffer
  <2> QED
    BY <1>1, <2>1, <2>3, <2>4, CellTypes DEF Goto
<1> QED
  BY <1>2, <1>3, <1>4

LEMMA PortTypes ==
  ASSUME TypeInv, NEW t \in Threads, PickPort(t) \/ SetEntry(t)
  PROVE  TypeInv'
<1>1. /\ loc[t] \in Locals /\ heap \in [Cells -> Cell] /\ natTable \in Cells \cup {NULL}
      /\ loc \in [Threads -> Locals] /\ Fits(pc[t], loc[t])
  BY DEF TypeInv, TypeOK, LocalsFit
<1>2. ASSUME NEW why \in {"segv", "noport"}, Crash(why) PROVE TypeInv'
  BY <1>2, CrashTypes
<1>3. CASE PickPort(t) /\ ~Crash("noport")
  <2>1. PICK i \in Ports :
          /\ loc' = [loc EXCEPT ![t].port = i]
          /\ Goto(t, "setEntry")
          /\ UNCHANGED <<now, natTable, heap, porttb, pktInBuf, sent, crashed>>
    BY <1>3 DEF PickPort
  <2> DEFINE m == [loc[t] EXCEPT !.port = i]
  <2>2. m \in Locals /\ loc' = [loc EXCEPT ![t] = m]
    BY <1>1, <2>1 DEF Locals
  <2>3. Fits("setEntry", m) /\ "setEntry" \in Labels
    BY <1>1, <1>3 DEF PickPort, At, Fits, Labels, InBuffer, Locals
  <2> QED
    BY <1>1, <2>1, <2>2, <2>3, CellTypes DEF Goto
<1>4. CASE SetEntry(t) /\ ~Crash("segv")
  <2>1. PICK c \in IF loc[t].head THEN {natTable, loc[t].new} ELSE {loc[t].cur} :
          /\ c # NULL
          /\ porttb' = [porttb EXCEPT ![loc[t].port] = TRUE]
          /\ heap' = [heap EXCEPT ![c].trans = loc[t].port, ![c].accesstv = loc[t].tv]
          /\ Translate(t, loc[t].pkt.flow, loc[t].port)
          /\ UNCHANGED <<now, natTable, pktInBuf, crashed>>
    BY <1>4 DEF SetEntry
  <2>2. c \in Cells /\ loc[t].port \in Ports /\ loc[t].tv \in Nat
    BY <1>1, <1>4, <2>1 DEF SetEntry, At, Fits, Locals
  <2>3. heap' \in [Cells -> Cell]
    BY <1>1, <2>1, <2>2, ZenonT(60) DEF Cell
  <2>4. porttb' \in [Ports -> BOOLEAN]
    BY <2>1, <2>2, Zenon DEF TypeInv, TypeOK
  <2>5. pc' \in [Threads -> Labels] /\ loc' \in [Threads -> Locals] /\ LocalsFit'
    BY <2>1, VerdictTypes DEF Translate, Goto
  <2> QED
    BY <2>1, <2>3, <2>4, <2>5, Zenon DEF TypeInv, TypeOK
<1> QED
  BY <1>2, <1>3, <1>4

LEMMA TypeStep == TypeInv /\ [Next]_vars => TypeInv'
<1> SUFFICES ASSUME TypeInv, [Next]_vars PROVE TypeInv'
  OBVIOUS
<1>1. CASE UNCHANGED vars
  BY <1>1 DEF vars, TypeInv, TypeOK, LocalsFit, Fits
<1>2. CASE Tick
  <2>1. now' \in Nat
    BY <1>2 DEF Tick, TypeInv, TypeOK
  <2> QED
    BY <1>2, <2>1 DEF Tick, TypeInv, TypeOK, LocalsFit, Fits
<1>3. ASSUME NEW t \in Threads,
             \/ Receive(t) \/ DropOther(t) \/ AddPktBuf(t) \/ DropFull(t) \/ StartExpiry(t)
             \/ ReadClock(t) \/ ScanEntry(t) \/ NextEntry(t) \/ EndScan(t)
             \/ StartOutbound(t) \/ StartInbound(t) \/ SearchOn(t) \/ FindOn(t)
             \/ StartPrint(t) \/ PrintEntry(t) \/ EndPrint(t)
             \/ DropUnknown(t) \/ Accept(t)
      PROVE  TypeInv'
  <2>1. pc' \in [Threads -> Labels] /\ loc' \in [Threads -> Locals] /\ LocalsFit'
    BY <1>3, QuietTypes
  <2>2. UNCHANGED <<now, natTable, heap, porttb, crashed>>
    BY <1>3, ZenonT(60) DEF Receive, DropOther, AddPktBuf, DropFull, StartExpiry, ReadClock,
                ScanEntry, NextEntry, EndScan, StartOutbound, StartInbound, SearchOn, FindOn,
                StartPrint, PrintEntry, EndPrint, DropUnknown, Accept
  <2>3. pktInBuf' \in {pktInBuf, pktInBuf + 1, pktInBuf - 1}
    BY <1>3 DEF Receive, DropOther, AddPktBuf, DropFull, StartExpiry, ReadClock,
                ScanEntry, NextEntry, EndScan, StartOutbound, StartInbound, SearchOn, FindOn,
                StartPrint, PrintEntry, EndPrint, DropUnknown, Accept
  <2>4. pktInBuf' \in Int
    BY <2>3 DEF TypeInv, TypeOK
  <2> QED
    BY <2>1, <2>2, <2>4, Zenon DEF TypeInv, TypeOK
<1>4. ASSUME NEW t \in Threads,
             \/ Unlink(t) \/ Unmark(t) \/ Free(t) \/ SearchHit(t) \/ FindHit(t)
             \/ Append(t) \/ NewHead(t) \/ AppendFill(t) \/ HeadFill(t) \/ PickPort(t)
             \/ SetEntry(t)
      PROVE  TypeInv'
  BY <1>4, UnlinkTypes, UnmarkTypes, FreeTypes, HitTypes, MallocTypes, FillTypes, PortTypes
<1> QED
  BY <1>1, <1>2, <1>3, <1>4 DEF Next, Handle

LEMMA TypeInvariant == Spec => []TypeInv
  BY TypeInit, TypeStep, PTL DEF Spec

(* Whatever the threads do to the list they share, every pointer is a      *)
(* chunk or NULL, every entry holds a flow and a port or the allocator's   *)
(* data, and no step follows a NULL pointer that it did not check.         *)
THEOREM Types == Spec => []TypeOK
<1>1. TypeInv => TypeOK
  BY DEF TypeInv
<1> QED
  BY <1>1, TypeInvariant, PTL

-----------------------------------------------------------------------------
(* The list.  A set is closed when the next pointers do not lead out of    *)
(* it; Reachable is the least closed set.                                  *)

IsClosed(S, head, next, open) ==
  /\ head \in S \cup {NULL}
  /\ \A d \in S \ open : next[d] \in S \cup {NULL}

Pointers == [Cells -> Cells \cup {NULL}]

LEMMA ReachableClosed ==
  ASSUME NEW head \in Cells \cup {NULL}, NEW next \in Pointers, NEW open
  PROVE  /\ Reachable(head, next, open) \subseteq Cells
         /\ IsClosed(Reachable(head, next, open), head, next, open)
<1> DEFINE R == Reachable(head, next, open)
<1>1. R \subseteq Cells
  BY DEF Reachable
<1>2. head \in R \cup {NULL}
  BY DEF Reachable
<1>3. ASSUME NEW d \in R \ open PROVE next[d] \in R \cup {NULL}
  <2>1. next[d] \in Cells \cup {NULL}
    BY <1>1 DEF Pointers
  <2>2. ASSUME NEW S \in SUBSET Cells, IsClosed(S, head, next, open), next[d] # NULL
        PROVE  next[d] \in S
    <3>1. d \in S
      BY <2>2 DEF Reachable, IsClosed
    <3> QED
      BY <2>2, <3>1 DEF IsClosed
  <2> QED
    BY <2>1, <2>2 DEF Reachable, IsClosed
<1> HIDE DEF R
<1>4. R \subseteq Cells /\ IsClosed(R, head, next, open)
  BY <1>1, <1>2, <1>3 DEF IsClosed
<1> QED
  BY <1>4 DEF R

LEMMA ReachableLeast ==
  ASSUME NEW head, NEW next, NEW open, NEW S \in SUBSET Cells,
         IsClosed(S, head, next, open)
  PROVE  Reachable(head, next, open) \subseteq S
  BY DEF Reachable, IsClosed

(* Nothing in the list points to its head, and no two entries point to the *)
(* same one.                                                               *)
OneWay(R, head, next, open) ==
  /\ \A c \in R \ open : next[c] # NULL => next[c] # head
  /\ \A c, d \in R \ open : c # d /\ next[c] # NULL => next[c] # next[d]

LEMMA RemoveHead ==
  ASSUME NEW next \in Pointers, NEW head \in Cells,
         OneWay(Reachable(head, next, {}), head, next, {})
  PROVE  /\ Reachable(next[head], next, {}) = Reachable(head, next, {}) \ {head}
         /\ OneWay(Reachable(head, next, {}) \ {head}, next[head], next, {})
<1> DEFINE R == Reachable(head, next, {})
           Q == Reachable(next[head], next, {})
<1>1. next[head] \in Cells \cup {NULL} /\ NULL \notin Cells
  BY NullAssumption DEF Pointers
<1>2. R \subseteq Cells /\ IsClosed(R, head, next, {})
  BY ReachableClosed
<1>3. Q \subseteq Cells /\ IsClosed(Q, next[head], next, {})
  BY <1>1, ReachableClosed
<1>4. OneWay(R, head, next, {})
  OBVIOUS
<1>5. head \in R
  BY <1>1, <1>2 DEF IsClosed
<1>6. Q \subseteq R \ {head}
  <2>1. R \ {head} \in SUBSET Cells
    BY <1>2
  <2>2. IsClosed(R \ {head}, next[head], next, {})
    <3> HIDE DEF R, Q
    <3> QED
      BY <1>2, <1>4, <1>5 DEF IsClosed, OneWay
  <2> QED
    BY <2>1, <2>2, ReachableLeast
<1>7. R \subseteq Q \cup {head}
  <2>1. Q \cup {head} \in SUBSET Cells
    BY <1>3
  <2>2. IsClosed(Q \cup {head}, head, next, {})
    <3> HIDE DEF R, Q
    <3> QED
      BY <1>3 DEF IsClosed
  <2> QED
    BY <2>1, <2>2, ReachableLeast
<1> HIDE DEF R, Q
<1>8. Q = R \ {head}
  BY <1>6, <1>7
<1>9. OneWay(R \ {head}, next[head], next, {})
  BY <1>4, <1>5 DEF OneWay
<1> QED
  BY <1>8, <1>9 DEF R, Q

LEMMA RemoveInner ==
  ASSUME NEW next \in Pointers, NEW head \in Cells \cup {NULL},
         OneWay(Reachable(head, next, {}), head, next, {}),
         NEW prev \in Reachable(head, next, {}), next[prev] # NULL
  PROVE  LET c == next[prev]
             next1 == [next EXCEPT ![prev] = next[c]]
         IN
         /\ prev # c /\ c # head /\ c \in Reachable(head, next, {})
         /\ Reachable(head, next1, {}) = Reachable(head, next, {}) \ {c}
         /\ OneWay(Reachable(head, next, {}) \ {c}, head, next1, {})
<1> DEFINE c == next[prev]
           next1 == [next EXCEPT ![prev] = next[c]]
           R == Reachable(head, next, {})
           Q == Reachable(head, next1, {})
<1>1. NULL \notin Cells
  BY NullAssumption
<1>2. R \subseteq Cells /\ IsClosed(R, head, next, {}) /\ c \in Cells
  BY ReachableClosed DEF Pointers
<1>3. OneWay(R, head, next, {}) /\ prev \in R /\ next[prev] = c
  OBVIOUS
<1>4. next1 \in Pointers
  BY <1>2 DEF Pointers
<1>5. Q \subseteq Cells /\ IsClosed(Q, head, next1, {})
  BY <1>4, ReachableClosed
<1> HIDE DEF R
<1>6. c # head /\ c \in R
  BY <1>1, <1>2, <1>3 DEF IsClosed, OneWay
<1>7. \A d \in R : d # prev => next[d] # c
  BY <1>1, <1>3 DEF OneWay
<1>8. prev # c
  <2> SUFFICES ASSUME prev = c PROVE FALSE
    OBVIOUS
  <2>1. IsClosed(R \ {c}, head, next, {})
    BY <1>2, <1>6, <1>7 DEF IsClosed
  <2> QED
    BY <1>2, <1>6, <2>1, ReachableLeast DEF R
<1>9. next[c] # c
  BY <1>6, <1>7, <1>8
<1>10. /\ next1[prev] = next[c]
       /\ \A d \in Cells : d # prev => next1[d] = next[d]
  BY <1>2, <1>3 DEF Pointers
<1>11. Q \subseteq R \ {c}
  <2>1. IsClosed(R \ {c}, head, next1, {}) /\ R \ {c} \in SUBSET Cells
    BY <1>2, <1>6, <1>7, <1>9, <1>10 DEF IsClosed
  <2> QED
    BY <2>1, ReachableLeast
<1> HIDE DEF Q
<1>12. prev \in Q
  <2> SUFFICES ASSUME prev \notin Q PROVE FALSE
    OBVIOUS
  <2>1. IsClosed(Q, head, next, {})
    BY <1>5, <1>10 DEF IsClosed
  <2> QED
    BY <1>3, <1>5, <2>1, ReachableLeast DEF R
<1>13. R \subseteq Q \cup {c}
  <2>1. IsClosed(Q \cup {c}, head, next, {}) /\ Q \cup {c} \in SUBSET Cells
    BY <1>2, <1>5, <1>10, <1>12 DEF IsClosed
  <2> QED
    BY <2>1, ReachableLeast DEF R
<1>14. Q = R \ {c}
  BY <1>11, <1>13
<1>15. OneWay(R \ {c}, head, next1, {})
  <2>1. \A d \in R : d # c /\ next[d] # NULL => next[d] # next[c]
    BY <1>3, <1>6 DEF OneWay
  <2> QED
    BY <1>2, <1>3, <1>6, <1>10, <2>1 DEF OneWay
<1> QED
  BY <1>6, <1>8, <1>14, <1>15 DEF R, Q

LEMMA AddLast ==
  ASSUME NEW next \in Pointers, NEW head \in Cells \cup {NULL},
         OneWay(Reachable(head, next, {}), head, next, {}),
         NEW last \in Reachable(head, next, {}), next[last] = NULL,
         NEW c \in Cells \ Reachable(head, next, {}),
         NEW next1, next1 = [next EXCEPT ![last] = c]
  PROVE  /\ Reachable(head, next1, {c}) = Reachable(head, next, {}) \cup {c}
         /\ OneWay(Reachable(head, next, {}) \cup {c}, head, next1, {c})
<1> DEFINE R == Reachable(head, next, {})
           Q == Reachable(head, next1, {c})
<1>1. NULL \notin Cells
  BY NullAssumption
<1>2. R \subseteq Cells /\ IsClosed(R, head, next, {})
  BY ReachableClosed
<1>3. OneWay(R, head, next, {}) /\ last \in R /\ c \notin R
  OBVIOUS
<1>4. next1 \in Pointers
  BY DEF Pointers
<1>5. Q \subseteq Cells /\ IsClosed(Q, head, next1, {c})
  BY <1>4, ReachableClosed
<1> HIDE DEF R
<1>6. /\ next1[last] = c
      /\ \A d \in Cells : d # last => next1[d] = next[d]
  BY <1>2, <1>3 DEF Pointers
<1>7. \A d \in R : next[d] # c
  BY <1>1, <1>2, <1>3 DEF IsClosed
<1>8. Q \subseteq R \cup {c}
  <2>1. IsClosed(R \cup {c}, head, next1, {c}) /\ R \cup {c} \in SUBSET Cells
    BY <1>2, <1>6 DEF IsClosed
  <2> QED
    BY <2>1, ReachableLeast
<1> HIDE DEF Q
<1>9. R \subseteq Q \ {c}
  <2>1. head # c
    BY <1>1, <1>2, <1>3 DEF IsClosed
  <2>2. IsClosed(Q \ {c}, head, next, {}) /\ Q \ {c} \in SUBSET Cells
    BY <1>5, <1>6, <1>7, <1>8, <2>1 DEF IsClosed
  <2> QED
    BY <2>2, ReachableLeast DEF R
<1>10. c \in Q
  BY <1>1, <1>3, <1>5, <1>6, <1>9 DEF IsClosed
<1>11. Q = R \cup {c}
  BY <1>8, <1>9, <1>10
<1>12. OneWay(R \cup {c}, head, next1, {c})
  <2>1. c # head
    BY <1>1, <1>2, <1>3 DEF IsClosed
  <2> QED
    BY <1>2, <1>3, <1>6, <1>7, <2>1 DEF OneWay
<1> QED
  BY <1>11, <1>12 DEF R, Q

LEMMA AddFirst ==
  ASSUME NEW next \in Pointers, NEW c \in Cells
  PROVE  /\ Reachable(NULL, next, {}) = {}
         /\ Reachable(c, next, {c}) = {c}
         /\ OneWay({c}, c, next, {c})
<1>1. IsClosed({}, NULL, next, {}) /\ IsClosed({c}, c, next, {c})
  BY DEF IsClosed
<1>2. Reachable(NULL, next, {}) \subseteq {} /\ Reachable(c, next, {c}) \subseteq {c}
  BY <1>1, ReachableLeast
<1>3. c \in Reachable(c, next, {c})
  BY NullAssumption, ReachableClosed DEF IsClosed
<1> QED
  BY <1>2, <1>3 DEF OneWay

(* The pointer of an open chunk does not count, nor does one that is NULL. *)
LEMMA CloseLast ==
  ASSUME NEW next \in Pointers, NEW head \in Cells \cup {NULL}, NEW c \in Cells,
         OneWay(Reachable(head, next, {c}), head, next, {c}),
         NEW next1, next1 = [next EXCEPT ![c] = NULL]
  PROVE  /\ Reachable(head, next1, {}) = Reachable(head, next, {c})
         /\ OneWay(Reachable(head, next, {c}), head, next1, {})
<1> DEFINE R == Reachable(head, next, {c})
           Q == Reachable(head, next1, {})
<1>1. next1[c] = NULL /\ \A d \in Cells : d # c => next1[d] = next[d]
  BY DEF Pointers
<1>2. next1 \in Pointers
  BY DEF Pointers
<1>3. \A S \in SUBSET Cells : IsClosed(S, head, next1, {}) <=> IsClosed(S, head, next, {c})
  BY <1>1 DEF IsClosed
<1>4. Q \in SUBSET Cells /\ IsClosed(Q, head, next1, {})
      /\ R \in SUBSET Cells /\ IsClosed(R, head, next, {c})
  BY <1>2, ReachableClosed
<1> HIDE DEF R, Q
<1>5. Q \subseteq R /\ R \subseteq Q
  BY <1>3, <1>4, ReachableLeast DEF R, Q
<1>6. OneWay(R, head, next, {c})
  BY DEF R
<1>7. OneWay(R, head, next1, {})
  BY <1>1, <1>4, <1>6 DEF OneWay
<1> QED
  BY <1>5, <1>7 DEF R, Q

-----------------------------------------------------------------------------
(* One packet at a time: nothing races, and the table is what nat.c means  *)
(* it to be.  malloc() finds a chunk, if there are more of them than ports.*)

OnePacketAtATime == MaxInFlight = 1

EnoughHeap == IsFiniteSet(Cells) /\ Cardinality(Cells) > NumPorts

Away == {"idle", "done"}

OneBusy == \A t, u \in Threads : pc[t] \notin Away /\ pc[u] \notin Away => t = u

(* Where an entry that was taken out of the list is on its way to free().  *)
Parting == {"unmark", "free"}

(* The chunks that are allocated, and those that hold a marked port: those *)
(* of the list, and of an entry that leaves.                               *)
Held == Listed \cup Leaving(Parting)
Bound == Entries \cup Leaving({"unmark"})

(* The chunks R that are allocated, those E that hold a port and the marks *)
(* agree.                                                                  *)
Agree(h, marks, R, E) ==
  /\ \A c \in Cells : h[c].live <=> c \in R
  /\ \A c \in E : h[c].itn \in Flows /\ h[c].trans \in Ports /\ marks[h[c].trans]
  /\ \A p \in Ports : marks[p] => \E c \in E : h[c].trans = p
  /\ \A c, d \in E : c # d => h[c].itn # h[d].itn /\ h[c].trans # h[d].trans

(* No completed entry is of the packet's flow.                             *)
NewTo(t) == \A c \in Entries : heap[c].itn # loc[t].pkt.flow

(* Where remove_expiry() is: prev is the entry before `table`.             *)
Scanning(t) ==
  \/ loc[t].prev = NULL /\ loc[t].cur = natTable
  \/ loc[t].prev \in Listed /\ heap[loc[t].prev].next = loc[t].cur

(* Where search_entry() is: the entries behind it are of other flows.      *)
Searching(t) ==
  /\ loc[t].cur \in Listed
  /\ \E V \in SUBSET Cells :
       /\ natTable \in V \cup {loc[t].cur}
       /\ \A d \in V : /\ heap[d].next \in V \cup {loc[t].cur}
                       /\ heap[d].itn # loc[t].pkt.flow

(* The new entry, from malloc() until it is complete.                      *)
Extending(t) ==
  /\ loc[t].cur \in Listed /\ loc[t].new \in Listed
  /\ heap[loc[t].cur].next = loc[t].new
  /\ NewTo(t)

Made(t) == IF loc[t].head THEN natTable ELSE loc[t].cur

Completing(t) ==
  /\ Made(t) \in Listed
  /\ heap[Made(t)].itn = loc[t].pkt.flow
  /\ heap[Made(t)].next = NULL
  /\ loc[t].head => loc[t].new = natTable
  /\ NewTo(t)

Place(t) ==
  /\ pc[t] = "clock" => loc[t].prev = NULL /\ loc[t].cur = natTable
  /\ pc[t] \in {"scan", "next", "unlink"} \cup Parting => Scanning(t)
  /\ pc[t] \in Parting => loc[t].new \notin Listed
  /\ pc[t] = "search" => Searching(t)
  /\ pc[t] = "append" =>
       loc[t].cur \in Listed /\ heap[loc[t].cur].next = NULL /\ NewTo(t)
  /\ pc[t] = "appendFill" => Extending(t)
  /\ pc[t] = "newHead" => natTable = NULL
  /\ pc[t] = "headFill" => natTable = loc[t].new /\ NewTo(t)
  /\ pc[t] \in {"pickPort", "setEntry"} => Completing(t)
  /\ pc[t] = "setEntry" => ~porttb[loc[t].port]
  /\ pc[t] = "find" => loc[t].cur \in Listed \cup {NULL}

SerialInv ==
  /\ TypeInv
  /\ OneBusy
  /\ OneWay(Listed, natTable, Nexts, Unfilled)
  /\ Agree(heap, porttb, Held, Bound)
  /\ crashed # "segv"
  /\ \A t \in Threads : Place(t)

(* The other threads have no packet.                                       *)
Alone(t) == \A u \in Threads : u # t => pc[u] \in Away

Making == {"appendFill", "headFill", "pickPort", "setEntry"}

LEMMA AloneStep ==
  ASSUME pc \in [Threads -> Labels], OneBusy, NEW t \in Threads, NEW b,
         pc[t] \notin Away, pc' = [pc EXCEPT ![t] = b]
  PROVE  Alone(t) /\ Alone(t)' /\ OneBusy' /\ pc'[t] = b
  BY DEF OneBusy, Alone

(* Only the thread that makes an entry has chunks in the list that are not *)
(* filled, or not complete.                                                *)
LEMMA OpenNow ==
  ASSUME NEW t \in Threads, Alone(t)
  PROVE  /\ pc[t] \notin {"appendFill", "headFill"} => Unfilled = {}
         /\ pc[t] = "appendFill" => Unfilled = {heap[loc[t].cur].next}
         /\ pc[t] = "headFill" => Unfilled = {natTable}
         /\ pc[t] \notin Making => Unfinished = {} /\ Entries = Listed
         /\ pc[t] \in {"appendFill", "headFill"} =>
              Unfinished = Unfilled /\ Entries = Listed \ Unfilled
         /\ pc[t] \in {"pickPort", "setEntry"} =>
              Unfinished = {Made(t)} /\ Entries = Listed \ {Made(t)}
         /\ pc[t] \notin Parting => Held = Listed /\ Bound = Entries
         /\ pc[t] \in Parting => Held = Listed \cup {loc[t].new}
         /\ pc[t] = "unmark" => Bound = Entries \cup {loc[t].new}
         /\ pc[t] = "free" => Bound = Entries
<1> USE DEF Alone, Away, Making
<1>1. pc[t] \notin {"appendFill", "headFill"} => Unfilled = {}
  BY DEF Unfilled
<1>2. pc[t] = "appendFill" => Unfilled = {heap[loc[t].cur].next}
  BY DEF Unfilled
<1>3. pc[t] = "headFill" => Unfilled = {natTable}
  BY DEF Unfilled
<1>4. pc[t] \notin {"pickPort", "setEntry"} => Unfinished = Unfilled
  BY DEF Unfinished
<1>5. pc[t] \in {"pickPort", "setEntry"} => Unfinished = {Made(t)}
  BY <1>1 DEF Unfinished, Made
<1>6. /\ pc[t] \notin Parting => Leaving(Parting) = {} /\ Leaving({"unmark"}) = {}
      /\ pc[t] \in Parting => Leaving(Parting) = {loc[t].new}
      /\ pc[t] = "unmark" => Leaving({"unmark"}) = {loc[t].new}
      /\ pc[t] = "free" => Leaving({"unmark"}) = {}
  BY DEF Leaving, Parting
<1> QED
  BY <1>1, <1>2, <1>3, <1>4, <1>5, <1>6 DEF Entries, Held, Bound

LEMMA OpenNext ==
  ASSUME NEW t \in Threads, Alone(t)'
  PROVE  /\ pc'[t] \notin {"appendFill", "headFill"} => Unfilled' = {}
         /\ pc'[t] = "appendFill" => Unfilled' = {heap'[loc'[t].cur].next}
         /\ pc'[t] = "headFill" => Unfilled' = {natTable'}
         /\ pc'[t] \notin Making => Unfinished' = {} /\ Entries' = Listed'
         /\ pc'[t] \in {"appendFill", "headFill"} =>
              Unfinished' = Unfilled' /\ Entries' = Listed' \ Unfilled'
         /\ pc'[t] \in {"pickPort", "setEntry"} =>
              Unfinished' = {Made(t)'} /\ Entries' = Listed' \ {Made(t)'}
         /\ pc'[t] \notin Parting => Held' = Listed' /\ Bound' = Entries'
         /\ pc'[t] \in Parting => Held' = Listed' \cup {loc'[t].new}
         /\ pc'[t] = "unmark" => Bound' = Entries' \cup {loc'[t].new}
         /\ pc'[t] = "free" => Bound' = Entries'
<1> USE DEF Alone, Away, Making
<1>1. pc'[t] \notin {"appendFill", "headFill"} => Unfilled' = {}
  BY DEF Unfilled
<1>2. pc'[t] = "appendFill" => Unfilled' = {heap'[loc'[t].cur].next}
  BY DEF Unfilled
<1>3. pc'[t] = "headFill" => Unfilled' = {natTable'}
  BY DEF Unfilled
<1>4. pc'[t] \notin {"pickPort", "setEntry"} => Unfinished' = Unfilled'
  BY DEF Unfinished
<1>5. pc'[t] \in {"pickPort", "setEntry"} => Unfinished' = {Made(t)'}
  BY <1>1 DEF Unfinished, Made
<1>6. /\ pc'[t] \notin Parting => Leaving(Parting)' = {} /\ Leaving({"unmark"})' = {}
      /\ pc'[t] \in Parting => Leaving(Parting)' = {loc'[t].new}
      /\ pc'[t] = "unmark" => Leaving({"unmark"})' = {loc'[t].new}
      /\ pc'[t] = "free" => Leaving({"unmark"})' = {}
  BY DEF Leaving, Parting
<1> QED
  BY <1>1, <1>2, <1>3, <1>4, <1>5, <1>6 DEF Entries, Held, Bound

(* The state after a step of t, put together.                              *)
LEMMA Reassemble ==
  ASSUME NEW t \in Threads, Alone(t)', TypeInv', OneBusy', Place(t)',
         OneWay(Listed, natTable, Nexts, Unfilled)',
         Agree(heap, porttb, Held, Bound)', crashed' # "segv"
  PROVE  SerialInv'
<1>1. ASSUME NEW u \in Threads, u # t PROVE Place(u)'
  <2>1. pc'[u] \in Away
    BY <1>1 DEF Alone
  <2> QED
    BY <2>1 DEF Place, Away, Parting
<1> QED
  BY <1>1 DEF SerialInv

LEMMA SerialInit == Init => SerialInv
<1> SUFFICES ASSUME Init PROVE SerialInv
  OBVIOUS
<1>1. TypeInv
  BY TypeInit
<1>2. OneBusy /\ \A t \in Threads : Alone(t) /\ pc[t] \notin Making
  BY DEF Init, OneBusy, Alone, Away, Making
<1>3. Unfilled = {} /\ Unfinished = {}
  BY DEF Init, Unfilled, Unfinished
<1>4. Nexts \in Pointers
  BY DEF Init, Nexts, Pointers
<1>5. Listed = {}
  <2>1. IsClosed({}, NULL, Nexts, {})
    BY DEF IsClosed
  <2> QED
    BY <1>3, <2>1, ReachableLeast DEF Init, Listed
<1>6. OneWay(Listed, natTable, Nexts, Unfilled)
  BY <1>5 DEF OneWay
<1>7. Agree(heap, porttb, Held, Bound)
  <2>1. Held = {} /\ Bound = {}
    BY <1>5 DEF Init, Held, Bound, Entries, Leaving, Parting
  <2> QED
    BY <2>1 DEF Init, Agree
<1>8. \A t \in Threads : Place(t)
  BY DEF Init, Place, Parting
<1> QED
  BY <1>1, <1>2, <1>6, <1>7, <1>8 DEF Init, SerialInv

LEMMA SerialTypes ==
  ASSUME SerialInv, NEW t \in Threads
  PROVE  /\ pc \in [Threads -> Labels] /\ loc \in [Threads -> Locals] /\ loc[t] \in Locals
         /\ heap \in [Cells -> Cell] /\ natTable \in Cells \cup {NULL}
         /\ Nexts \in Pointers /\ porttb \in [Ports -> BOOLEAN] /\ now \in Nat
         /\ Fits(pc[t], loc[t]) /\ Place(t) /\ NULL \notin Cells
         /\ Listed \subseteq Cells
         /\ IsClosed(Listed, natTable, Nexts, Unfilled)
<1>1. heap \in [Cells -> Cell] /\ natTable \in Cells \cup {NULL}
  BY DEF SerialInv, TypeInv, TypeOK
<1>2. Nexts \in Pointers
  BY <1>1 DEF Nexts, Pointers, Cell
<1>3. Listed \subseteq Cells /\ IsClosed(Listed, natTable, Nexts, Unfilled)
  BY <1>1, <1>2, ReachableClosed DEF Listed
<1> QED
  BY <1>1, <1>2, <1>3, NullAssumption, Zenon DEF SerialInv, TypeInv, TypeOK, LocalsFit

(* A step that leaves list and marks alone, with no entry in the making.   *)
LEMMA TableStays ==
  ASSUME SerialInv, NEW t \in Threads, Alone(t), Alone(t)',
         pc[t] \notin Making \cup Parting, pc'[t] \notin Making \cup Parting,
         UNCHANGED <<natTable, heap, porttb>>
  PROVE  /\ Entries = Listed /\ Unfilled = {}
         /\ Listed' = Listed /\ Entries' = Listed
         /\ OneWay(Listed, natTable, Nexts, Unfilled)'
         /\ Agree(heap, porttb, Held, Bound)'
<1>1. Entries = Listed /\ Unfilled = {} /\ Held = Listed /\ Bound = Entries
  BY OpenNow DEF Making
<1>2. Entries' = Listed' /\ Unfilled' = {} /\ Held' = Listed' /\ Bound' = Entries'
  BY OpenNext DEF Making
<1>3. Nexts' = Nexts
  BY DEF Nexts
<1>4. Listed' = Listed
  BY <1>1, <1>2, <1>3 DEF Listed
<1> QED
  BY <1>1, <1>2, <1>3, <1>4 DEF SerialInv

LEMMA ReceiveAlone ==
  ASSUME OnePacketAtATime, SerialInv, NEW t \in Threads, Receive(t)
  PROVE  Alone(t) /\ Alone(t)' /\ OneBusy' /\ pc[t] = "idle" /\ pc'[t] = "recv"
<1> DEFINE B == {u \in Threads : pc[u] \notin {"idle", "done"}}
<1>1. IsFiniteSet(B) /\ Cardinality(B) \in Nat
  BY ThreadsAssumption, FS_Subset, FS_CardinalityType
<1>2. Cardinality(B) = 0
  BY <1>1 DEF Receive, OnePacketAtATime
<1>3. B = {}
  BY <1>1, <1>2, FS_EmptySet
<1>4. pc \in [Threads -> Labels] /\ pc[t] = "idle" /\ pc' = [pc EXCEPT ![t] = "recv"]
  BY SerialTypes DEF Receive, At, Goto
<1> QED
  BY <1>3, <1>4 DEF Alone, OneBusy, Away

LEMMA BeforeListSteps ==
  ASSUME OnePacketAtATime, SerialInv, NEW t \in Threads, TypeInv',
         \/ Receive(t) \/ DropOther(t) \/ AddPktBuf(t) \/ DropFull(t)
         \/ EndScan(t) \/ StartPrint(t) \/ PrintEntry(t) \/ EndPrint(t)
         \/ DropUnknown(t) \/ Accept(t)
  PROVE  SerialInv'
<1>1. Alone(t) /\ Alone(t)' /\ OneBusy' /\ pc[t] \notin Making \cup Parting
      /\ pc'[t] \in {"recv", "done", "expire", "lookup", "printing", "token"}
  <2>1. CASE Receive(t)
    BY <2>1, ReceiveAlone DEF Making, Parting
  <2>2. CASE ~Receive(t)
    <3>1. pc[t] \in {"recv", "scan", "find", "print", "printing", "token"}
      BY <2>2 DEF DropOther, AddPktBuf, DropFull, EndScan, StartPrint, PrintEntry, EndPrint,
                  DropUnknown, Accept, At
    <3>2. pc \in [Threads -> Labels] /\ OneBusy
      BY SerialTypes DEF SerialInv
    <3>3. PICK b \in {"done", "expire", "lookup", "printing", "token"} :
            pc' = [pc EXCEPT ![t] = b]
      <4>1. CASE PrintEntry(t)
        BY <3>2, <4>1 DEF PrintEntry, At
      <4>2. CASE ~PrintEntry(t)
        BY <2>2, <4>2 DEF DropOther, AddPktBuf, DropFull, EndScan, StartPrint, EndPrint,
                          DropUnknown, Accept, Verdict, Goto
      <4> QED
        BY <4>1, <4>2
    <3> QED
      BY <3>1, <3>2, <3>3, AloneStep DEF Away, Making, Parting
  <2> QED
    BY <2>1, <2>2
<1>2. UNCHANGED <<natTable, heap, porttb, crashed>>
  BY DEF Receive, DropOther, AddPktBuf, DropFull, EndScan, StartPrint, PrintEntry, EndPrint,
         DropUnknown, Accept
<1>3. /\ OneWay(Listed, natTable, Nexts, Unfilled)'
      /\ Agree(heap, porttb, Held, Bound)'
  BY <1>1, <1>2, TableStays DEF Making, Parting
<1>4. Place(t)'
  BY <1>1 DEF Place, Parting
<1> QED
  BY <1>1, <1>2, <1>3, <1>4, Reassemble DEF SerialInv

(* The walks over the list.                                                *)
LEMMA WalkMoves ==
  ASSUME SerialInv, NEW t \in Threads,
         \/ StartExpiry(t) \/ ReadClock(t) \/ ScanEntry(t) \/ NextEntry(t)
         \/ StartOutbound(t) \/ StartInbound(t) \/ SearchOn(t) \/ FindOn(t)
  PROVE  /\ Alone(t) /\ Alone(t)' /\ OneBusy'
         /\ pc[t] \notin Making \cup Parting /\ pc'[t] \notin Making \cup Parting
         /\ UNCHANGED <<natTable, heap, porttb, crashed>>
         /\ OneWay(Listed, natTable, Nexts, Unfilled)'
         /\ Agree(heap, porttb, Held, Bound)'
         /\ Entries = Listed /\ Listed' = Listed /\ Entries' = Listed
         /\ IsClosed(Listed, natTable, Nexts, {})
<1>1. pc[t] \notin Away /\ pc[t] \notin Making \cup Parting
  BY DEF StartExpiry, ReadClock, ScanEntry, NextEntry, StartOutbound, StartInbound, SearchOn,
         FindOn, At, Away, Making, Parting
<1>2. UNCHANGED <<natTable, heap, porttb, crashed>>
  BY DEF StartExpiry, ReadClock, ScanEntry, NextEntry, StartOutbound, StartInbound, SearchOn,
         FindOn
<1>3. pc \in [Threads -> Labels] /\ OneBusy
  BY SerialTypes DEF SerialInv
<1>4. PICK b \in {"clock", "scan", "next", "unlink", "newHead", "search", "find", "append"} :
        pc' = [pc EXCEPT ![t] = b]
  <2>1. pc = [pc EXCEPT ![t] = pc[t]]
    BY <1>3
  <2>2. CASE \/ StartExpiry(t) \/ ReadClock(t) \/ NextEntry(t) \/ StartOutbound(t)
             \/ StartInbound(t)
    BY <2>2 DEF StartExpiry, ReadClock, NextEntry, StartOutbound, StartInbound, Goto
  <2>3. CASE ScanEntry(t) \/ SearchOn(t) \/ FindOn(t)
    BY <2>1, <2>3 DEF ScanEntry, SearchOn, FindOn, Goto, At
  <2> QED
    BY <2>2, <2>3
<1>5. Alone(t) /\ Alone(t)' /\ OneBusy' /\ pc'[t] = b
  BY <1>1, <1>3, <1>4, AloneStep
<1>6. pc'[t] \notin Making \cup Parting
  BY <1>5 DEF Making, Parting
<1>7. IsClosed(Listed, natTable, Nexts, {})
  BY <1>1, <1>2, <1>5, <1>6, TableStays, SerialTypes
<1> QED
  BY <1>1, <1>2, <1>5, <1>6, <1>7, TableStays

LEMMA WalkSteps ==
  ASSUME SerialInv, NEW t \in Threads, TypeInv',
         \/ StartExpiry(t) \/ ReadClock(t) \/ ScanEntry(t) \/ NextEntry(t)
         \/ StartOutbound(t) \/ StartInbound(t) \/ SearchOn(t) \/ FindOn(t)
  PROVE  SerialInv'
<1> DEFINE c == loc[t].cur
<1>1. /\ Alone(t) /\ Alone(t)' /\ OneBusy'
      /\ UNCHANGED <<natTable, heap, porttb, crashed>>
      /\ OneWay(Listed, natTable, Nexts, Unfilled)'
      /\ Agree(heap, porttb, Held, Bound)'
      /\ Entries = Listed /\ Listed' = Listed /\ Entries' = Listed
      /\ IsClosed(Listed, natTable, Nexts, {})
  BY WalkMoves
<1>2. /\ pc \in [Threads -> Labels] /\ loc \in [Threads -> Locals] /\ loc[t] \in Locals
      /\ heap \in [Cells -> Cell] /\ natTable \in Cells \cup {NULL}
      /\ Fits(pc[t], loc[t]) /\ Place(t) /\ NULL \notin Cells /\ Listed \subseteq Cells
  BY SerialTypes
<1>3. natTable \in Listed \cup {NULL}
      /\ \A d \in Listed : heap[d].next \in Listed \cup {NULL}
  BY <1>1, <1>2 DEF IsClosed, Nexts
<1>4. Place(t)'
  <2>1. CASE StartExpiry(t)
    <3>1. pc'[t] = "clock" /\ loc'[t].prev = NULL /\ loc'[t].cur = natTable
      BY <1>2, <2>1 DEF StartExpiry, Goto, Locals
    <3> QED
      BY <1>1, <3>1 DEF Place, Parting
  <2>2. CASE ReadClock(t)
    <3>1. /\ pc'[t] = "scan" /\ loc[t].prev = NULL /\ loc[t].cur = natTable
          /\ loc'[t].prev = loc[t].prev /\ loc'[t].cur = loc[t].cur
      BY <1>2, <2>2 DEF ReadClock, At, Goto, Locals, Place
    <3> QED
      BY <1>1, <3>1 DEF Place, Scanning, Parting
  <2>2a. CASE ScanEntry(t)
    <3>1. Scanning(t) /\ pc'[t] \in {"unlink", "next"} /\ loc' = loc
      BY <1>2, <2>2a DEF ScanEntry, At, Goto, Place
    <3> QED
      BY <1>1, <3>1 DEF Place, Scanning, Parting
  <2>2b. CASE NextEntry(t)
    <3>1. c \in Cells /\ Scanning(t)
      BY <1>2, <2>2b DEF NextEntry, At, Place, Fits
    <3>2. c \in Listed
      BY <1>2, <1>3, <3>1 DEF Scanning
    <3>3. pc'[t] = "scan" /\ loc'[t].prev = c /\ loc'[t].cur = heap[c].next
      BY <1>2, <2>2b DEF NextEntry, Goto, Locals
    <3> QED
      BY <1>1, <3>2, <3>3 DEF Place, Scanning, Parting
  <2>3. CASE StartOutbound(t)
    <3>1. loc'[t].cur = natTable
          /\ pc'[t] = IF natTable = NULL THEN "newHead" ELSE "search"
      BY <1>2, <2>3 DEF StartOutbound, Goto, Locals
    <3>2. pc'[t] = "search" => Searching(t)'
      <4>1. ASSUME pc'[t] = "search" PROVE Searching(t)'
        <5>1. natTable \in Listed
          BY <1>3, <3>1, <4>1
        <5>2. natTable' \in {} \cup {loc'[t].cur} /\ {} \in SUBSET Cells
          BY <1>1, <3>1
        <5> QED
          BY <1>1, <3>1, <5>1, <5>2 DEF Searching
      <4> QED
        BY <4>1
    <3> QED
      BY <1>1, <3>1, <3>2 DEF Place, Parting
  <2>4. CASE StartInbound(t)
    <3>1. loc'[t].cur = natTable /\ pc'[t] = "find"
      BY <1>2, <2>4 DEF StartInbound, Goto, Locals
    <3> QED
      BY <1>1, <1>3, <3>1 DEF Place, Parting
  <2>5. CASE SearchOn(t)
    <3>1. pc[t] = "search" /\ Searching(t) /\ heap[c].itn # loc[t].pkt.flow
      BY <1>2, <2>5 DEF SearchOn, At, Place
    <3>2. PICK V \in SUBSET Cells :
            /\ natTable \in V \cup {c}
            /\ \A d \in V : heap[d].next \in V \cup {c} /\ heap[d].itn # loc[t].pkt.flow
      BY <3>1 DEF Searching
    <3>3. c \in Listed
      BY <3>1 DEF Searching
    <3>4. CASE heap[c].next = NULL
      <4>1. loc' = loc /\ pc'[t] = "append"
        BY <1>2, <2>5, <3>4 DEF SearchOn, Goto
      <4>2. IsClosed(V \cup {c}, natTable, Nexts, {})
        BY <1>2, <3>2, <3>3, <3>4 DEF IsClosed, Nexts
      <4>3. Unfilled = {}
        BY <1>1, <3>1, OpenNow
      <4>4. Listed \subseteq V \cup {c}
        BY <1>2, <3>3, <4>2, <4>3, ReachableLeast DEF Listed
      <4>5. NewTo(t)
        BY <1>1, <3>1, <3>2, <4>4 DEF NewTo
      <4>6. NewTo(t)'
        BY <1>1, <4>1, <4>5 DEF NewTo
      <4> QED
        BY <1>1, <3>3, <3>4, <4>1, <4>6 DEF Place, Parting
    <3>5. CASE heap[c].next # NULL
      <4>1. pc'[t] = "search" /\ loc'[t].cur = heap[c].next /\ loc'[t].pkt = loc[t].pkt
        BY <1>2, <2>5, <3>1, <3>5 DEF SearchOn, Locals
      <4>2. heap[c].next \in Listed
        BY <1>3, <3>3, <3>5
      <4>3. V \cup {c} \in SUBSET Cells
        BY <1>2, <3>3
      <4>4. Searching(t)'
        BY <1>1, <3>1, <3>2, <4>1, <4>2, <4>3, ZenonT(60) DEF Searching
      <4> QED
        BY <4>1, <4>4 DEF Place, Parting
    <3> QED
      BY <3>4, <3>5
  <2>6. CASE FindOn(t)
    <3>1. pc'[t] = "find" /\ loc'[t].cur = heap[c].next /\ c \in Listed
      BY <1>2, <2>6 DEF FindOn, At, Locals, Place
    <3> QED
      BY <1>1, <1>3, <3>1 DEF Place, Parting
  <2> QED
    BY <2>1, <2>2, <2>2a, <2>2b, <2>3, <2>4, <2>5, <2>6
<1> QED
  BY <1>1, <1>4, Reassemble DEF SerialInv

(* The completed entries, and what they hold, are as before.               *)
EntriesStay ==
  /\ Entries' = Entries
  /\ \A d \in Entries : /\ heap'[d].itn = heap[d].itn
                        /\ heap'[d].trans = heap[d].trans
                        /\ heap'[d].accesstv = heap[d].accesstv

(* remove_expiry() takes one entry out of the list: nothing else changes.  *)
LEMMA UnlinkEffect ==
  ASSUME SerialInv, NEW t \in Threads, Unlink(t)
  PROVE  LET c == loc[t].cur IN
         /\ c \in Listed /\ Entries = Listed /\ Unfilled = {}
         /\ Alone(t) /\ Alone(t)' /\ OneBusy' /\ pc'[t] = "unmark"
         /\ loc'[t] = [loc[t] EXCEPT !.new = c, !.cur = heap[c].next]
         /\ \A d \in Cells : /\ heap'[d].live = heap[d].live
                             /\ heap'[d].itn = heap[d].itn
                             /\ heap'[d].trans = heap[d].trans
                             /\ heap'[d].accesstv = heap[d].accesstv
                             /\ d # loc[t].prev => heap'[d].next = heap[d].next
         /\ Listed' = Listed \ {c} /\ Entries' = Listed' /\ Unfilled' = {}
         /\ Held = Listed /\ Bound = Listed /\ Held' = Listed /\ Bound' = Listed
         /\ OneWay(Listed', natTable', Nexts', {})
         /\ \/ loc[t].prev = NULL /\ natTable = c /\ natTable' = heap[c].next
            \/ /\ loc[t].prev \in Listed \ {c} /\ natTable' = natTable /\ natTable # c
               /\ heap[loc[t].prev].next = c /\ heap'[loc[t].prev].next = heap[c].next
         /\ UNCHANGED <<now, porttb, sent, pktInBuf, crashed>>
<1> DEFINE c == loc[t].cur
           e == heap[c]
           p == loc[t].prev
<1>1. /\ pc \in [Threads -> Labels] /\ loc \in [Threads -> Locals] /\ loc[t] \in Locals
      /\ heap \in [Cells -> Cell] /\ natTable \in Cells \cup {NULL} /\ Nexts \in Pointers
      /\ c \in Cells /\ e \in Cell /\ NULL \notin Cells /\ Listed \subseteq Cells
  BY SerialTypes DEF Unlink, At, Fits
<1>2. pc[t] = "unlink" /\ OneBusy /\ Scanning(t)
  BY SerialTypes DEF Unlink, At, Place, SerialInv
<1>3. Alone(t)
  BY <1>2 DEF OneBusy, Alone, Away
<1>4. Entries = Listed /\ Unfilled = {} /\ Held = Listed /\ Bound = Listed
  BY <1>2, <1>3, OpenNow DEF Making, Parting
<1>5. Listed = Reachable(natTable, Nexts, {}) /\ OneWay(Listed, natTable, Nexts, {})
  BY <1>4 DEF Listed, SerialInv
<1>6. c \in Listed
  BY <1>1, <1>2, <1>4, SerialTypes DEF Scanning, IsClosed, Nexts
<1>7. /\ IF p = NULL
           THEN natTable' = e.next /\ heap' = heap
           ELSE heap' = [heap EXCEPT ![p].next = e.next] /\ natTable' = natTable
      /\ pc' = [pc EXCEPT ![t] = "unmark"]
      /\ UNCHANGED <<now, porttb, sent, pktInBuf, crashed>>
  BY DEF Unlink, Goto
<1>8. Alone(t)' /\ OneBusy' /\ pc'[t] = "unmark"
  BY <1>1, <1>2, <1>7, AloneStep DEF Away
<1>9. loc'[t] = [loc[t] EXCEPT !.new = c, !.cur = e.next] /\ loc'[t].new = c
  BY <1>1 DEF Unlink, Locals
<1>10. /\ Unfilled' = {} /\ Entries' = Listed'
       /\ Held' = Listed' \cup {c} /\ Bound' = Listed' \cup {c}
  BY <1>8, <1>9, OpenNext DEF Making, Parting
<1>12. CASE p = NULL
  <2>1. natTable = c
    BY <1>1, <1>2, <1>12 DEF Scanning
  <2>2. heap' = heap /\ natTable' = e.next
    BY <1>7, <1>12
  <2>3. Nexts' = Nexts /\ Nexts[c] = e.next
    BY <1>1, <2>2 DEF Nexts
  <2>4. /\ Reachable(Nexts[c], Nexts, {}) = Listed \ {c}
        /\ OneWay(Listed \ {c}, Nexts[c], Nexts, {})
    BY <1>1, <1>5, <2>1, RemoveHead
  <2>5. Listed' = Listed \ {c} /\ OneWay(Listed', natTable', Nexts', {})
    BY <1>10, <2>2, <2>3, <2>4 DEF Listed
  <2>6. Held' = Listed /\ Bound' = Listed
    BY <1>6, <1>10, <2>5
  <2> QED
    BY <1>3, <1>4, <1>6, <1>7, <1>8, <1>9, <1>10, <1>12, <2>1, <2>2, <2>5, <2>6
<1>13. CASE p # NULL
  <2>1. p \in Listed /\ heap[p].next = c /\ p \in Cells
    BY <1>1, <1>2, <1>13 DEF Scanning
  <2>2. heap' = [heap EXCEPT ![p].next = e.next] /\ natTable' = natTable
    BY <1>7, <1>13
  <2> DEFINE n1 == [Nexts EXCEPT ![p] = Nexts[c]]
  <2>3. Nexts[p] = c /\ Nexts[c] = e.next
    BY <1>1, <2>1 DEF Nexts
  <2>4. /\ p # c /\ c # natTable
        /\ Reachable(natTable, n1, {}) = Listed \ {c}
        /\ OneWay(Listed \ {c}, natTable, n1, {})
    <3>1. p \in Reachable(natTable, Nexts, {}) /\ Nexts[p] # NULL
          /\ OneWay(Reachable(natTable, Nexts, {}), natTable, Nexts, {})
      BY <1>1, <1>5, <2>1, <2>3
    <3>2. n1 = [Nexts EXCEPT ![p] = Nexts[Nexts[p]]]
      BY <2>3
    <3>3. /\ p # Nexts[p] /\ Nexts[p] # natTable
          /\ Reachable(natTable, [Nexts EXCEPT ![p] = Nexts[Nexts[p]]], {})
               = Reachable(natTable, Nexts, {}) \ {Nexts[p]}
          /\ OneWay(Reachable(natTable, Nexts, {}) \ {Nexts[p]}, natTable,
                    [Nexts EXCEPT ![p] = Nexts[Nexts[p]]], {})
      BY <1>1, <3>1, RemoveInner
    <3> HIDE DEF n1
    <3> QED
      BY <1>5, <2>3, <3>2, <3>3
  <2>5. \A d \in Cells : /\ heap'[d].live = heap[d].live
                         /\ heap'[d].itn = heap[d].itn
                         /\ heap'[d].trans = heap[d].trans
                         /\ heap'[d].accesstv = heap[d].accesstv
                         /\ heap'[d].next = IF d = p THEN e.next ELSE heap[d].next
    BY <1>1, <2>1, <2>2 DEF Cell
  <2>6. Nexts' = n1
    BY <1>1, <2>1, <2>3, <2>5 DEF Nexts
  <2>7. Listed' = Listed \ {c} /\ OneWay(Listed', natTable', Nexts', {})
    BY <1>10, <2>2, <2>4, <2>6 DEF Listed
  <2>8. \A d \in Cells : d # p => heap'[d].next = heap[d].next
    BY <2>5
  <2>9. heap'[p].next = e.next /\ p \in Listed \ {c}
    BY <2>1, <2>4, <2>5
  <2>10. Held' = Listed /\ Bound' = Listed
    BY <1>6, <1>10, <2>7
  <2> HIDE DEF n1
  <2> QED
    BY <1>3, <1>4, <1>6, <1>7, <1>8, <1>9, <1>10,
       <2>1, <2>2, <2>4, <2>5, <2>7, <2>8, <2>9, <2>10
<1> QED
  BY <1>12, <1>13

LEMMA UnlinkStep ==
  ASSUME SerialInv, NEW t \in Threads, TypeInv', Unlink(t)
  PROVE  SerialInv'
<1> DEFINE c == loc[t].cur
<1>1. /\ c \in Listed /\ Alone(t)' /\ OneBusy' /\ pc'[t] = "unmark"
      /\ loc'[t] = [loc[t] EXCEPT !.new = c, !.cur = heap[c].next]
      /\ Listed' = Listed \ {c} /\ Unfilled' = {}
      /\ Held = Listed /\ Bound = Listed /\ Held' = Listed /\ Bound' = Listed
      /\ OneWay(Listed', natTable', Nexts', {})
      /\ porttb' = porttb /\ crashed' = crashed
  BY UnlinkEffect
<1>2. \A d \in Cells : /\ heap'[d].live = heap[d].live
                       /\ heap'[d].itn = heap[d].itn
                       /\ heap'[d].trans = heap[d].trans
  BY UnlinkEffect
<1>3. \/ loc[t].prev = NULL /\ natTable' = heap[c].next
      \/ loc[t].prev \in Listed \ {c} /\ heap'[loc[t].prev].next = heap[c].next
  BY UnlinkEffect
<1>4. loc[t] \in Locals /\ Listed \subseteq Cells
  BY SerialTypes
<1>5. /\ loc'[t].cur = heap[c].next /\ loc'[t].prev = loc[t].prev /\ loc'[t].new = c
  BY <1>1, <1>4 DEF Locals
<1>6. Scanning(t)'
  BY <1>1, <1>3, <1>5 DEF Scanning
<1>7. Place(t)'
  BY <1>1, <1>5, <1>6 DEF Place, Parting
<1>8. Agree(heap, porttb, Listed, Listed)
  BY <1>1 DEF SerialInv
<1>9. Agree(heap, porttb, Held, Bound)'
  BY <1>1, <1>2, <1>4, <1>8 DEF Agree
<1> QED
  BY <1>1, <1>7, <1>9, Reassemble DEF SerialInv

(* The port of the entry that left is given back, and nothing else.        *)
LEMMA UnmarkEffect ==
  ASSUME SerialInv, NEW t \in Threads, Unmark(t)
  PROVE  LET c == loc[t].new IN
         /\ Alone(t) /\ Alone(t)' /\ OneBusy' /\ pc[t] = "unmark" /\ pc'[t] = "free"
         /\ c \in Cells \ Listed /\ heap[c].trans \in Ports
         /\ Entries = Listed /\ Held = Listed \cup {c} /\ Bound = Listed \cup {c}
         /\ Listed' = Listed /\ Entries' = Listed /\ Held' = Held /\ Bound' = Listed
         /\ porttb' = [porttb EXCEPT ![heap[c].trans] = FALSE]
         /\ OneWay(Listed, natTable, Nexts, Unfilled)'
         /\ UNCHANGED <<now, natTable, heap, loc, pktInBuf, sent, crashed>>
<1> DEFINE c == loc[t].new
<1>1. /\ pc \in [Threads -> Labels] /\ loc \in [Threads -> Locals] /\ loc[t] \in Locals
      /\ c \in Cells /\ Place(t) /\ OneBusy /\ pc[t] = "unmark"
  BY SerialTypes DEF SerialInv, Unmark, At, Fits
<1>2. Alone(t)
  BY <1>1 DEF OneBusy, Alone, Away
<1>3. /\ Entries = Listed /\ Unfilled = {}
      /\ Held = Listed \cup {c} /\ Bound = Listed \cup {c}
  BY <1>1, <1>2, OpenNow DEF Making, Parting
<1>4. c \notin Listed /\ Scanning(t)
  BY <1>1 DEF Place, Parting
<1>5. heap[c].trans \in Ports /\ heap[c].trans # Junk
  BY <1>3, NullAssumption DEF SerialInv, Agree
<1>6. /\ \E after \in AfterUnlink(t) : loc' = [loc EXCEPT ![t].cur = after]
      /\ porttb' = [porttb EXCEPT ![heap[c].trans] = FALSE]
      /\ pc' = [pc EXCEPT ![t] = "free"]
      /\ UNCHANGED <<now, natTable, heap, pktInBuf, sent, crashed>>
  BY <1>5 DEF Unmark, Goto
<1>7. loc' = loc
  <2>1. AfterUnlink(t) = {loc[t].cur}
    BY <1>1, <1>4, SerialTypes DEF AfterUnlink, Scanning
  <2>2. loc' = [loc EXCEPT ![t].cur = loc[t].cur]
    BY <1>6, <2>1
  <2>3. [loc[t] EXCEPT !.cur = loc[t].cur] = loc[t]
    BY <1>1 DEF Locals
  <2> QED
    BY <1>1, <2>2, <2>3
<1>8. Alone(t)' /\ OneBusy' /\ pc'[t] = "free"
  BY <1>1, <1>6, AloneStep DEF Away
<1>9. /\ Unfilled' = {} /\ Entries' = Listed'
      /\ Held' = Listed' \cup {c} /\ Bound' = Listed'
  BY <1>7, <1>8, OpenNext DEF Making, Parting
<1>10. Nexts' = Nexts
  BY <1>6 DEF Nexts
<1>11. Listed' = Listed
  BY <1>3, <1>6, <1>9, <1>10 DEF Listed
<1>12. OneWay(Listed, natTable, Nexts, Unfilled)'
  BY <1>3, <1>6, <1>9, <1>10, <1>11 DEF SerialInv
<1> QED
  BY <1>1, <1>2, <1>3, <1>4, <1>5, <1>6, <1>7, <1>8, <1>9, <1>11, <1>12

LEMMA UnmarkStep ==
  ASSUME SerialInv, NEW t \in Threads, TypeInv', Unmark(t)
  PROVE  SerialInv'
<1> DEFINE c == loc[t].new
           i == heap[c].trans
<1>1. /\ Alone(t)' /\ OneBusy' /\ pc[t] = "unmark" /\ pc'[t] = "free"
      /\ c \in Cells \ Listed /\ i \in Ports
      /\ Entries = Listed /\ Held = Listed \cup {c} /\ Bound = Listed \cup {c}
      /\ Listed' = Listed /\ Held' = Held /\ Bound' = Listed
      /\ porttb' = [porttb EXCEPT ![i] = FALSE]
      /\ OneWay(Listed, natTable, Nexts, Unfilled)'
      /\ UNCHANGED <<natTable, heap, loc, crashed>>
  BY UnmarkEffect
<1>2. porttb \in [Ports -> BOOLEAN] /\ Listed \subseteq Cells /\ Place(t)
  BY SerialTypes
<1>3. Place(t)'
  <2>1. Scanning(t)' = Scanning(t)
    BY <1>1 DEF Scanning
  <2> QED
    BY <1>1, <1>2, <2>1 DEF Place, Parting
<1>4. Agree(heap, porttb, Held, Bound)
  BY DEF SerialInv
<1> HIDE DEF c
<1>5. \A p \in Ports : porttb'[p] <=> porttb[p] /\ p # i
  BY <1>1, <1>2
<1>6. Agree(heap, porttb, Held, Bound)'
  <2>1. \A d \in Cells : heap'[d].live <=> d \in Held'
    BY <1>1, <1>4 DEF Agree
  <2>2. \A d \in Listed : d # c
    BY <1>1
  <2>3. \A d \in Listed : /\ heap[d].itn \in Flows /\ heap[d].trans \in Ports
                          /\ porttb[heap[d].trans] /\ heap[d].trans # i
    BY <1>1, <1>4, <2>2 DEF Agree
  <2>4. \A d \in Bound' : /\ heap'[d].itn \in Flows /\ heap'[d].trans \in Ports
                          /\ porttb'[heap'[d].trans]
    BY <1>1, <1>5, <2>3
  <2>5. \A p \in Ports : porttb'[p] => \E d \in Bound' : heap'[d].trans = p
    BY <1>1, <1>4, <1>5 DEF Agree
  <2>6. \A a, b \in Bound' : a # b => heap'[a].itn # heap'[b].itn
                                       /\ heap'[a].trans # heap'[b].trans
    BY <1>1, <1>4 DEF Agree
  <2> QED
    BY <2>1, <2>4, <2>5, <2>6 DEF Agree
<1> QED
  BY <1>1, <1>3, <1>6, Reassemble DEF SerialInv

(* The chunk of the entry that left is given back, and nothing else.       *)
LEMMA FreeEffect ==
  ASSUME SerialInv, NEW t \in Threads, Free(t)
  PROVE  LET c == loc[t].new IN
         /\ Alone(t) /\ Alone(t)' /\ OneBusy' /\ pc[t] = "free" /\ pc'[t] = "scan"
         /\ c \in Cells \ Listed
         /\ Entries = Listed /\ Held = Listed \cup {c} /\ Bound = Listed
         /\ Listed' = Listed /\ Entries' = Listed /\ Held' = Listed /\ Bound' = Listed
         /\ loc'[t] = [loc[t] EXCEPT !.new = NULL]
         /\ ~heap'[c].live
         /\ \A d \in Cells : /\ heap'[d].next = heap[d].next
                             /\ heap'[d].accesstv = heap[d].accesstv
                             /\ d # c => heap'[d] = heap[d]
         /\ OneWay(Listed, natTable, Nexts, Unfilled)'
         /\ UNCHANGED <<now, natTable, porttb, pktInBuf, sent, crashed>>
<1> DEFINE c == loc[t].new
<1>1. /\ pc \in [Threads -> Labels] /\ loc \in [Threads -> Locals] /\ loc[t] \in Locals
      /\ c \in Cells /\ Place(t) /\ OneBusy /\ pc[t] = "free" /\ heap \in [Cells -> Cell]
  BY SerialTypes DEF SerialInv, Free, At, Fits
<1>2. Alone(t)
  BY <1>1 DEF OneBusy, Alone, Away
<1>3. /\ Entries = Listed /\ Unfilled = {}
      /\ Held = Listed \cup {c} /\ Bound = Listed
  BY <1>1, <1>2, OpenNow DEF Making, Parting
<1>4. c \notin Listed
  BY <1>1 DEF Place, Parting
<1>5. heap[c].live
  BY <1>1, <1>3 DEF SerialInv, Agree
<1>6. /\ heap' = [heap EXCEPT ![c] = Freed(heap[c])]
      /\ loc' = [loc EXCEPT ![t].new = NULL]
      /\ pc' = [pc EXCEPT ![t] = "scan"]
      /\ UNCHANGED <<now, natTable, porttb, pktInBuf, sent, crashed>>
  BY <1>5 DEF Free, Goto
<1>7. loc'[t] = [loc[t] EXCEPT !.new = NULL]
  BY <1>1, <1>6
<1>8. Alone(t)' /\ OneBusy' /\ pc'[t] = "scan"
  BY <1>1, <1>6, AloneStep DEF Away
<1>9. Unfilled' = {} /\ Entries' = Listed' /\ Held' = Listed' /\ Bound' = Listed'
  BY <1>8, OpenNext DEF Making, Parting
<1>10. /\ ~heap'[c].live
       /\ \A d \in Cells : /\ heap'[d].next = heap[d].next
                           /\ heap'[d].accesstv = heap[d].accesstv
                           /\ d # c => heap'[d] = heap[d]
  BY <1>1, <1>6 DEF Freed, Cell
<1>11. Nexts' = Nexts
  BY <1>10 DEF Nexts
<1>12. Listed' = Listed
  BY <1>3, <1>6, <1>9, <1>11 DEF Listed
<1>13. OneWay(Listed, natTable, Nexts, Unfilled)'
  BY <1>3, <1>6, <1>9, <1>11, <1>12 DEF SerialInv
<1> QED
  BY <1>1, <1>2, <1>3, <1>4, <1>6, <1>7, <1>8, <1>9, <1>10, <1>12, <1>13

LEMMA FreeStep ==
  ASSUME SerialInv, NEW t \in Threads, TypeInv', Free(t)
  PROVE  SerialInv'
<1> DEFINE c == loc[t].new
<1>1. /\ Alone(t)' /\ OneBusy' /\ pc[t] = "free" /\ pc'[t] = "scan"
      /\ c \in Cells \ Listed
      /\ Entries = Listed /\ Held = Listed \cup {c} /\ Bound = Listed
      /\ Listed' = Listed /\ Held' = Listed /\ Bound' = Listed
      /\ loc'[t] = [loc[t] EXCEPT !.new = NULL]
      /\ OneWay(Listed, natTable, Nexts, Unfilled)'
      /\ UNCHANGED <<natTable, porttb, crashed>>
  BY FreeEffect
<1>2. /\ ~heap'[c].live
      /\ \A d \in Cells : heap'[d].next = heap[d].next /\ (d # c => heap'[d] = heap[d])
  BY FreeEffect
<1>3. loc[t] \in Locals /\ Listed \subseteq Cells /\ Place(t)
  BY SerialTypes
<1>4. Place(t)'
  <2>1. loc'[t].cur = loc[t].cur /\ loc'[t].prev = loc[t].prev
    BY <1>1, <1>3 DEF Locals
  <2>2. Scanning(t)
    BY <1>1, <1>3 DEF Place, Parting
  <2>3. Scanning(t)'
    BY <1>1, <1>2, <1>3, <2>1, <2>2 DEF Scanning
  <2> QED
    BY <1>1, <2>3 DEF Place, Parting
<1>5. Agree(heap, porttb, Held, Bound)
  BY DEF SerialInv
<1> HIDE DEF c
<1>6. \A d \in Listed : heap'[d] = heap[d]
  BY <1>1, <1>2, <1>3
<1>7. Agree(heap, porttb, Held, Bound)'
  <2>1. \A d \in Cells : heap'[d].live <=> d \in Held'
    BY <1>1, <1>2, <1>5 DEF Agree
  <2> QED
    BY <1>1, <1>5, <1>6, <2>1 DEF Agree
<1> QED
  BY <1>1, <1>4, <1>7, Reassemble DEF SerialInv

(* A hit refreshes the time stamp of the entry.                            *)
LEMMA HitEffect ==
  ASSUME SerialInv, NEW t \in Threads, SearchHit(t) \/ FindHit(t)
  PROVE  LET c == loc[t].cur IN
         /\ c \in Listed /\ Entries = Listed /\ Listed' = Listed /\ Entries' = Listed
         /\ Held = Listed /\ Bound = Listed /\ Held' = Listed /\ Bound' = Listed
         /\ Alone(t) /\ Alone(t)' /\ OneBusy' /\ pc'[t] = "print"
         /\ heap' = [heap EXCEPT ![c].accesstv = loc[t].tv]
         /\ \A d \in Cells : /\ heap'[d].live <=> heap[d].live
                             /\ heap'[d].itn = heap[d].itn
                             /\ heap'[d].trans = heap[d].trans
         /\ OneWay(Listed, natTable, Nexts, Unfilled)'
         /\ UNCHANGED <<now, natTable, porttb, pktInBuf, crashed>>
<1> DEFINE c == loc[t].cur
<1>1. /\ pc \in [Threads -> Labels] /\ heap \in [Cells -> Cell]
      /\ NULL \notin Cells /\ Listed \subseteq Cells /\ Place(t)
  BY SerialTypes
<1>2. pc[t] \in {"search", "find"} /\ c # NULL
  BY <1>1, SerialTypes DEF SearchHit, FindHit, At, Fits
<1>3. c \in Listed /\ c \in Cells
  BY <1>1, <1>2 DEF Place, Searching
<1>4. /\ heap' = [heap EXCEPT ![c].accesstv = loc[t].tv]
      /\ pc' = [pc EXCEPT ![t] = "print"]
      /\ UNCHANGED <<now, natTable, porttb, pktInBuf, crashed>>
  BY DEF SearchHit, FindHit, Translate, Goto
<1>5. Alone(t) /\ Alone(t)' /\ OneBusy' /\ pc'[t] = "print"
  BY <1>1, <1>2, <1>4, AloneStep DEF Away, SerialInv
<1>6. /\ Entries = Listed /\ Unfilled = {} /\ Entries' = Listed' /\ Unfilled' = {}
      /\ Held = Listed /\ Bound = Listed /\ Held' = Listed' /\ Bound' = Listed'
  BY <1>2, <1>5, OpenNow, OpenNext DEF Making, Parting
<1>7. \A d \in Cells : /\ heap'[d].live <=> heap[d].live
                       /\ heap'[d].itn = heap[d].itn
                       /\ heap'[d].trans = heap[d].trans
                       /\ heap'[d].next = heap[d].next
  BY <1>1, <1>3, <1>4 DEF Cell
<1>8. Nexts' = Nexts
  BY <1>7 DEF Nexts
<1>9. Listed' = Listed
  BY <1>4, <1>6, <1>8 DEF Listed
<1>10. OneWay(Listed, natTable, Nexts, Unfilled)'
  BY <1>4, <1>6, <1>8, <1>9 DEF SerialInv
<1> QED
  BY <1>3, <1>4, <1>5, <1>6, <1>7, <1>9, <1>10

LEMMA HitStep ==
  ASSUME SerialInv, NEW t \in Threads, TypeInv', SearchHit(t) \/ FindHit(t)
  PROVE  SerialInv'
<1>1. /\ Held = Listed /\ Bound = Listed /\ Held' = Listed /\ Bound' = Listed
      /\ Alone(t)' /\ OneBusy' /\ pc'[t] = "print"
      /\ OneWay(Listed, natTable, Nexts, Unfilled)'
      /\ UNCHANGED <<porttb, crashed>>
  BY HitEffect
<1>2. \A d \in Cells : /\ heap'[d].live <=> heap[d].live
                       /\ heap'[d].itn = heap[d].itn
                       /\ heap'[d].trans = heap[d].trans
  BY HitEffect
<1>3. Agree(heap, porttb, Held, Bound)'
  BY <1>1, <1>2, SerialTypes DEF Agree, SerialInv
<1>4. Place(t)'
  BY <1>1 DEF Place, Parting
<1> QED
  BY <1>1, <1>3, <1>4, Reassemble DEF SerialInv

(* Every entry holds a port of its own, so there are not more entries than *)
(* ports, and a chunk is left for the next one.                            *)
LEMMA HeapLeft ==
  ASSUME EnoughHeap, SerialInv, Held = Listed, Bound = Listed
  PROVE  FreeCells # {}
<1>1. Listed \subseteq Cells
  BY DEF Listed, Reachable
<1>2. Agree(heap, porttb, Listed, Listed)
  BY DEF SerialInv
<1> DEFINE f == [c \in Listed |-> heap[c].trans]
<1>3. f \in Injection(Listed, Ports)
  BY <1>2 DEF Agree, Injection, IsInjective
<1>4. IsFiniteSet(Ports) /\ Cardinality(Ports) = NumPorts
  BY PortAssumption, FS_Interval DEF Ports
<1>5. Cardinality(Listed) <= NumPorts
  BY <1>3, <1>4, FS_Injection
<1>6. Listed # Cells
  BY <1>5, PortAssumption, FS_CardinalityType DEF EnoughHeap
<1>7. PICK c \in Cells : c \notin Listed
  BY <1>1, <1>6
<1>8. ~heap[c].live
  BY <1>2, <1>7 DEF Agree
<1> QED
  BY <1>8 DEF FreeCells

(* malloc() gives a chunk that is not in the list, and the list is extended*)
(* by it, at its end or as its first entry.                                *)
LEMMA AppendEffect ==
  ASSUME EnoughHeap, SerialInv, NEW t \in Threads, Append(t)
  PROVE  \E c \in Cells \ Listed :
           /\ Alone(t) /\ Alone(t)' /\ OneBusy' /\ pc'[t] = "appendFill"
           /\ Entries = Listed /\ Listed' = Listed \cup {c} /\ Entries' = Listed
           /\ Held = Listed /\ Bound = Listed /\ Held' = Listed \cup {c} /\ Bound' = Listed
           /\ Unfilled' = {c} /\ NewTo(t) /\ loc[t].cur \in Listed
           /\ loc'[t] = [loc[t] EXCEPT !.new = c]
           /\ heap' = [heap EXCEPT ![c].live = TRUE, ![loc[t].cur].next = c]
           /\ OneWay(Listed', natTable', Nexts', Unfilled')
           /\ UNCHANGED <<now, natTable, porttb, pktInBuf, sent, crashed>>
<1> DEFINE last == loc[t].cur
<1>1. /\ pc \in [Threads -> Labels] /\ loc \in [Threads -> Locals] /\ loc[t] \in Locals
      /\ heap \in [Cells -> Cell] /\ natTable \in Cells \cup {NULL} /\ Nexts \in Pointers
      /\ NULL \notin Cells /\ Listed \subseteq Cells /\ Place(t)
  BY SerialTypes
<1>2. pc[t] = "append" /\ last \in Listed /\ heap[last].next = NULL /\ NewTo(t)
  BY <1>1 DEF Append, At, Place
<1>3. Alone(t)
  BY <1>2 DEF SerialInv, OneBusy, Alone, Away
<1>4. Entries = Listed /\ Unfilled = {} /\ Held = Listed /\ Bound = Listed
  BY <1>2, <1>3, OpenNow DEF Making, Parting
<1>5. Listed = Reachable(natTable, Nexts, {}) /\ OneWay(Listed, natTable, Nexts, {})
  BY <1>4 DEF Listed, SerialInv
<1>6. FreeCells # {}
  BY <1>4, HeapLeft
<1>7. PICK c \in FreeCells :
        /\ heap' = [heap EXCEPT ![c].live = TRUE, ![last].next = c]
        /\ loc' = [loc EXCEPT ![t].new = c]
        /\ pc' = [pc EXCEPT ![t] = "appendFill"]
        /\ UNCHANGED <<now, natTable, porttb, pktInBuf, sent, crashed>>
  BY <1>6 DEF Append, Goto
<1>8. c \in Cells \ Listed
  BY <1>4 DEF FreeCells, SerialInv, Agree
<1>9. Alone(t)' /\ OneBusy' /\ pc'[t] = "appendFill"
  BY <1>1, <1>2, <1>7, AloneStep DEF Away, SerialInv
<1>10. loc'[t] = [loc[t] EXCEPT !.new = c]
  BY <1>1, <1>7
<1>11. heap'[last].next = c /\ loc'[t].cur = last
  BY <1>1, <1>2, <1>7, <1>8, <1>10 DEF Cell, Locals
<1>12. /\ Unfilled' = {c} /\ Entries' = Listed' \ {c}
       /\ Held' = Listed' /\ Bound' = Entries'
  BY <1>9, <1>11, OpenNext DEF Parting
<1> DEFINE n1 == [Nexts EXCEPT ![last] = c]
<1>13. Nexts' = n1
  <2>1. \A d \in Cells : heap'[d].next = IF d = last THEN c ELSE heap[d].next
    BY <1>1, <1>2, <1>7, <1>8 DEF Cell
  <2> QED
    BY <1>1, <1>2, <2>1 DEF Nexts
<1>14. Nexts[last] = NULL
  BY <1>1, <1>2 DEF Nexts
<1>15. /\ Reachable(natTable, n1, {c}) = Listed \cup {c}
       /\ OneWay(Listed \cup {c}, natTable, n1, {c})
  <2>1. /\ last \in Reachable(natTable, Nexts, {})
        /\ c \in Cells \ Reachable(natTable, Nexts, {})
        /\ OneWay(Reachable(natTable, Nexts, {}), natTable, Nexts, {})
    BY <1>2, <1>5, <1>8
  <2>2. /\ Reachable(natTable, n1, {c}) = Reachable(natTable, Nexts, {}) \cup {c}
        /\ OneWay(Reachable(natTable, Nexts, {}) \cup {c}, natTable, n1, {c})
    BY <1>1, <1>14, <2>1, AddLast
  <2> HIDE DEF n1
  <2> QED
    BY <1>5, <2>2
<1>16. Listed' = Listed \cup {c} /\ OneWay(Listed', natTable', Nexts', Unfilled')
  <2> HIDE DEF n1
  <2> QED
    BY <1>7, <1>12, <1>13, <1>15 DEF Listed
<1>17. Entries' = Listed /\ Held' = Listed \cup {c} /\ Bound' = Listed
  BY <1>8, <1>12, <1>16
<1> QED
  BY <1>2, <1>3, <1>4, <1>7, <1>8, <1>9, <1>10, <1>12, <1>16, <1>17

LEMMA NewHeadEffect ==
  ASSUME EnoughHeap, SerialInv, NEW t \in Threads, NewHead(t)
  PROVE  \E c \in Cells \ Listed :
           /\ Alone(t) /\ Alone(t)' /\ OneBusy' /\ pc'[t] = "headFill"
           /\ Listed = {} /\ Entries = Listed /\ Listed' = {c} /\ Entries' = {}
           /\ Held = {} /\ Bound = {} /\ Held' = {c} /\ Bound' = {}
           /\ natTable' = c /\ Unfilled' = {c}
           /\ loc'[t] = [loc[t] EXCEPT !.new = c]
           /\ heap' = [heap EXCEPT ![c].live = TRUE]
           /\ OneWay(Listed', natTable', Nexts', Unfilled')
           /\ UNCHANGED <<now, porttb, pktInBuf, sent, crashed>>
<1>1. /\ pc \in [Threads -> Labels] /\ loc \in [Threads -> Locals] /\ loc[t] \in Locals
      /\ heap \in [Cells -> Cell] /\ Nexts \in Pointers /\ Place(t)
  BY SerialTypes
<1>2. pc[t] = "newHead" /\ natTable = NULL
  BY <1>1 DEF NewHead, At, Place
<1>3. Alone(t)
  BY <1>2 DEF SerialInv, OneBusy, Alone, Away
<1>4. Entries = Listed /\ Unfilled = {} /\ Held = Listed /\ Bound = Listed
  BY <1>2, <1>3, OpenNow DEF Making, Parting
<1>5. FreeCells # {}
  BY <1>4, HeapLeft
<1>6. PICK c \in FreeCells :
        /\ heap' = [heap EXCEPT ![c].live = TRUE]
        /\ natTable' = c
        /\ loc' = [loc EXCEPT ![t].new = c]
        /\ pc' = [pc EXCEPT ![t] = "headFill"]
        /\ UNCHANGED <<now, porttb, pktInBuf, sent, crashed>>
  BY <1>5 DEF NewHead, Goto
<1>7. c \in Cells
  BY DEF FreeCells
<1>8. Alone(t)' /\ OneBusy' /\ pc'[t] = "headFill"
  BY <1>1, <1>2, <1>6, AloneStep DEF Away, SerialInv
<1>9. /\ Unfilled' = {c} /\ Entries' = Listed' \ {c}
      /\ Held' = Listed' /\ Bound' = Entries'
  BY <1>6, <1>8, OpenNext DEF Parting
<1>10. Nexts' = Nexts
  <2>1. \A d \in Cells : heap'[d].next = heap[d].next
    BY <1>1, <1>6, <1>7 DEF Cell
  <2> QED
    BY <2>1 DEF Nexts
<1>11. /\ Reachable(NULL, Nexts, {}) = {}
       /\ Reachable(c, Nexts, {c}) = {c}
       /\ OneWay({c}, c, Nexts, {c})
  BY <1>1, <1>7, AddFirst
<1>12. /\ Listed = {} /\ Listed' = {c} /\ Entries' = {}
       /\ Held = {} /\ Bound = {} /\ Held' = {c} /\ Bound' = {}
  BY <1>2, <1>4, <1>6, <1>9, <1>10, <1>11 DEF Listed
<1>13. OneWay(Listed', natTable', Nexts', Unfilled')
  BY <1>6, <1>9, <1>10, <1>11, <1>12
<1>14. loc'[t] = [loc[t] EXCEPT !.new = c]
  BY <1>1, <1>6
<1> QED
  BY <1>3, <1>4, <1>6, <1>7, <1>8, <1>9, <1>12, <1>13, <1>14

LEMMA MallocStep ==
  ASSUME EnoughHeap, SerialInv, NEW t \in Threads, TypeInv', Append(t) \/ NewHead(t)
  PROVE  SerialInv' /\ EntriesStay /\ UNCHANGED <<now, sent>>
<1>1. /\ loc[t] \in Locals /\ heap \in [Cells -> Cell] /\ Listed \subseteq Cells
      /\ Agree(heap, porttb, Held, Bound) /\ crashed # "segv"
  BY SerialTypes DEF SerialInv
<1>2. CASE Append(t)
  <2>1. PICK c \in Cells \ Listed :
          /\ Alone(t) /\ Alone(t)' /\ OneBusy' /\ pc'[t] = "appendFill"
          /\ Entries = Listed /\ Listed' = Listed \cup {c} /\ Entries' = Listed
          /\ Held = Listed /\ Bound = Listed /\ Held' = Listed \cup {c} /\ Bound' = Listed
          /\ Unfilled' = {c} /\ NewTo(t) /\ loc[t].cur \in Listed
          /\ loc'[t] = [loc[t] EXCEPT !.new = c]
          /\ heap' = [heap EXCEPT ![c].live = TRUE, ![loc[t].cur].next = c]
          /\ OneWay(Listed', natTable', Nexts', Unfilled')
          /\ UNCHANGED <<now, natTable, porttb, pktInBuf, sent, crashed>>
    BY <1>2, AppendEffect
  <2>2. \A d \in Cells : /\ heap'[d].live <=> d = c \/ heap[d].live
                         /\ heap'[d].itn = heap[d].itn
                         /\ heap'[d].trans = heap[d].trans
                         /\ heap'[d].accesstv = heap[d].accesstv
    BY <1>1, <2>1 DEF Cell
  <2>3. loc'[t].cur = loc[t].cur /\ loc'[t].new = c /\ loc'[t].pkt = loc[t].pkt
        /\ heap'[loc[t].cur].next = c
    BY <1>1, <2>1 DEF Locals, Cell
  <2>4. Extending(t)'
    BY <1>1, <2>1, <2>2, <2>3 DEF Extending, NewTo
  <2>5. Place(t)'
    BY <2>1, <2>4 DEF Place, Parting
  <2>6. Agree(heap, porttb, Held, Bound)'
    <3>1. \A d \in Cells : heap'[d].live <=> d \in Held'
      <4>1. Held' = Listed \cup {c} /\ \A d \in Cells : heap[d].live <=> d \in Listed
        BY <1>1, <2>1, Zenon DEF Agree
      <4>2. \A d \in Cells : heap'[d].live <=> d = c \/ heap[d].live
        BY <2>2, Zenon
      <4> QED
        BY <4>1, <4>2, Zenon
    <3>2. porttb' = porttb /\ Bound' = Listed /\ Listed \subseteq Cells
      BY <1>1, <2>1
    <3>3. \A d \in Listed : heap'[d].itn = heap[d].itn /\ heap'[d].trans = heap[d].trans
      BY <2>2, <3>2
    <3>4. Agree(heap, porttb, Listed, Listed)
      BY <1>1, <2>1
    <3> QED
      BY <3>1, <3>2, <3>3, <3>4 DEF Agree
  <2>7. EntriesStay
    BY <1>1, <2>1, <2>2 DEF EntriesStay
  <2> QED
    BY <1>1, <2>1, <2>5, <2>6, <2>7, Reassemble
<1>3. CASE NewHead(t)
  <2>1. PICK c \in Cells \ Listed :
          /\ Alone(t) /\ Alone(t)' /\ OneBusy' /\ pc'[t] = "headFill"
          /\ Listed = {} /\ Entries = Listed /\ Listed' = {c} /\ Entries' = {}
          /\ Held = {} /\ Bound = {} /\ Held' = {c} /\ Bound' = {}
          /\ natTable' = c /\ Unfilled' = {c}
          /\ loc'[t] = [loc[t] EXCEPT !.new = c]
          /\ heap' = [heap EXCEPT ![c].live = TRUE]
          /\ OneWay(Listed', natTable', Nexts', Unfilled')
          /\ UNCHANGED <<now, porttb, pktInBuf, sent, crashed>>
    BY <1>3, NewHeadEffect
  <2>2. \A d \in Cells : heap'[d].live <=> d = c \/ heap[d].live
    BY <1>1, <2>1 DEF Cell
  <2>3. loc'[t].new = c
    BY <1>1, <2>1 DEF Locals
  <2>4. Place(t)'
    BY <2>1, <2>3 DEF Place, NewTo, Parting
  <2>5. Agree(heap, porttb, Held, Bound)'
    BY <1>1, <2>1, <2>2 DEF Agree
  <2>6. EntriesStay
    BY <2>1 DEF EntriesStay
  <2> QED
    BY <1>1, <2>1, <2>4, <2>5, <2>6, Reassemble
<1> QED
  BY <1>2, <1>3

(* The new chunk becomes the last entry of the list, with a flow and no    *)
(* port yet.                                                               *)
LEMMA FillEffect ==
  ASSUME SerialInv, NEW t \in Threads, AppendFill(t) \/ HeadFill(t)
  PROVE  LET c == loc[t].new IN
         /\ Alone(t) /\ Alone(t)' /\ OneBusy' /\ pc'[t] = "pickPort"
         /\ c \in Listed /\ Listed' = Listed /\ Unfilled' = {}
         /\ Made(t)' = c /\ Entries = Listed \ {c} /\ Entries' = Listed \ {c}
         /\ Held = Listed /\ Bound = Entries /\ Held' = Listed /\ Bound' = Listed \ {c}
         /\ loc'[t].pkt = loc[t].pkt /\ loc'[t].new = c
         /\ loc'[t].head => natTable = c
         /\ heap' = [heap EXCEPT ![c].next = NULL, ![c].itn = loc[t].pkt.flow]
         /\ OneWay(Listed', natTable', Nexts', {})
         /\ NewTo(t)
         /\ UNCHANGED <<now, natTable, porttb, pktInBuf, sent, crashed>>
<1> DEFINE c == loc[t].new
<1>1. /\ pc \in [Threads -> Labels] /\ loc \in [Threads -> Locals] /\ loc[t] \in Locals
      /\ heap \in [Cells -> Cell] /\ natTable \in Cells \cup {NULL} /\ Nexts \in Pointers
      /\ NULL \notin Cells /\ Listed \subseteq Cells /\ Place(t) /\ OneBusy
  BY SerialTypes DEF SerialInv
<1>2. pc[t] \in {"appendFill", "headFill"} /\ c \in Cells
  BY SerialTypes DEF AppendFill, HeadFill, At, Fits
<1>3. Alone(t)
  BY <1>1, <1>2 DEF OneBusy, Alone, Away
<1>4. Unfilled = {c} /\ NewTo(t) /\ c \in Listed
  <2>1. CASE pc[t] = "appendFill"
    BY <1>1, <1>3, <2>1, OpenNow DEF Place, Extending
  <2>2. CASE pc[t] = "headFill"
    <3>1. natTable = c /\ Unfilled = {c} /\ NewTo(t)
      BY <1>1, <1>3, <2>2, OpenNow DEF Place
    <3> QED
      BY <1>2, <1>1, <3>1, SerialTypes DEF IsClosed
  <2> QED
    BY <1>2, <2>1, <2>2
<1>5. Entries = Listed \ {c} /\ Held = Listed /\ Bound = Entries
  BY <1>2, <1>3, <1>4, OpenNow DEF Parting
<1>6. /\ heap' = [heap EXCEPT ![c].next = NULL, ![c].itn = loc[t].pkt.flow]
      /\ \/ loc' = [loc EXCEPT ![t].cur = c, ![t].head = FALSE]
         \/ loc' = [loc EXCEPT ![t].head = TRUE] /\ natTable = c
      /\ pc' = [pc EXCEPT ![t] = "pickPort"]
      /\ UNCHANGED <<now, natTable, porttb, pktInBuf, sent, crashed>>
  <2>1. CASE AppendFill(t)
    <3>1. pc[t] = "appendFill" /\ heap[loc[t].cur].next = c
      BY <1>1, <2>1 DEF AppendFill, At, Place, Extending
    <3> QED
      BY <1>1, <1>2, <2>1, <3>1 DEF AppendFill, Goto
  <2>2. CASE HeadFill(t)
    <3>1. pc[t] = "headFill" /\ natTable = c
      BY <1>1, <2>2 DEF HeadFill, At, Place
    <3> QED
      BY <1>1, <1>2, <2>2, <3>1 DEF HeadFill, Goto
  <2> QED
    BY <2>1, <2>2
<1>7. Alone(t)' /\ OneBusy' /\ pc'[t] = "pickPort"
  BY <1>1, <1>2, <1>6, AloneStep DEF Away
<1>8. /\ loc'[t].pkt = loc[t].pkt /\ loc'[t].new = c
      /\ loc'[t].head => natTable = c
      /\ Made(t)' = c
  BY <1>1, <1>6 DEF Locals, Made
<1>9. /\ Unfilled' = {} /\ Entries' = Listed' \ {c}
      /\ Held' = Listed' /\ Bound' = Entries'
  BY <1>7, <1>8, OpenNext DEF Parting
<1> DEFINE n1 == [Nexts EXCEPT ![c] = NULL]
<1>10. Nexts' = n1
  <2>1. \A d \in Cells : heap'[d].next = IF d = c THEN NULL ELSE heap[d].next
    BY <1>1, <1>2, <1>6 DEF Cell
  <2> QED
    BY <1>1, <1>2, <2>1 DEF Nexts
<1>11. /\ Reachable(natTable, n1, {}) = Listed
       /\ OneWay(Listed, natTable, n1, {})
  <2>1. Listed = Reachable(natTable, Nexts, {c}) /\ OneWay(Listed, natTable, Nexts, {c})
    BY <1>4 DEF Listed, SerialInv
  <2>2. OneWay(Reachable(natTable, Nexts, {c}), natTable, Nexts, {c})
    BY <2>1
  <2>3. /\ Reachable(natTable, n1, {}) = Reachable(natTable, Nexts, {c})
        /\ OneWay(Reachable(natTable, Nexts, {c}), natTable, n1, {})
    BY <1>1, <1>2, <2>2, CloseLast
  <2> HIDE DEF n1
  <2> QED
    BY <2>1, <2>3
<1>12. Listed' = Listed /\ OneWay(Listed', natTable', Nexts', {})
  <2> HIDE DEF n1
  <2> QED
    BY <1>6, <1>9, <1>10, <1>11 DEF Listed
<1> QED
  BY <1>3, <1>4, <1>5, <1>6, <1>7, <1>8, <1>9, <1>12

LEMMA FillStep ==
  ASSUME SerialInv, NEW t \in Threads, TypeInv', AppendFill(t) \/ HeadFill(t)
  PROVE  SerialInv' /\ EntriesStay /\ UNCHANGED <<now, sent>>
<1> DEFINE c == loc[t].new
<1>1. /\ Alone(t)' /\ OneBusy' /\ pc'[t] = "pickPort"
      /\ c \in Listed /\ Listed' = Listed /\ Unfilled' = {}
      /\ Made(t)' = c /\ Entries = Listed \ {c} /\ Entries' = Listed \ {c}
      /\ Held = Listed /\ Bound = Entries /\ Held' = Listed /\ Bound' = Listed \ {c}
      /\ loc'[t].pkt = loc[t].pkt /\ loc'[t].new = c
      /\ loc'[t].head => natTable = c
      /\ heap' = [heap EXCEPT ![c].next = NULL, ![c].itn = loc[t].pkt.flow]
      /\ OneWay(Listed', natTable', Nexts', {})
      /\ NewTo(t)
      /\ UNCHANGED <<now, natTable, porttb, pktInBuf, sent, crashed>>
  BY FillEffect
<1>2. heap \in [Cells -> Cell] /\ Listed \subseteq Cells
  BY SerialTypes
<1>3. \A d \in Cells : /\ heap'[d].live = heap[d].live
                       /\ heap'[d].trans = heap[d].trans
                       /\ heap'[d].accesstv = heap[d].accesstv
                       /\ d # c => heap'[d].itn = heap[d].itn
  BY <1>1, <1>2 DEF Cell
<1>4. heap'[c].itn = loc[t].pkt.flow /\ heap'[c].next = NULL
  BY <1>1, <1>2 DEF Cell
<1>5. EntriesStay
  BY <1>1, <1>2, <1>3 DEF EntriesStay
<1>6. NewTo(t)'
  BY <1>1, <1>2, <1>3 DEF NewTo
<1>7. Completing(t)'
  BY <1>1, <1>4, <1>6 DEF Completing
<1>8. Place(t)'
  BY <1>1, <1>7 DEF Place, Parting
<1>9. Agree(heap, porttb, Held, Bound)'
  <2>1. Agree(heap, porttb, Listed, Listed \ {c})
    BY <1>1 DEF SerialInv
  <2> QED
    <3>1. \A d \in Cells : heap'[d].live <=> d \in Held'
      BY <1>1, <1>3, <2>1, ZenonT(30) DEF Agree
    <3>2. porttb' = porttb /\ Bound' = Listed \ {c} /\ Listed \ {c} \subseteq Cells
      BY <1>1, <1>2
    <3>3. \A d \in Bound' : heap'[d].itn = heap[d].itn /\ heap'[d].trans = heap[d].trans
      BY <1>3, <3>2
    <3> QED
      BY <2>1, <3>1, <3>2, <3>3 DEF Agree
<1> QED
  BY <1>1, <1>5, <1>8, <1>9, Reassemble DEF SerialInv

(* The process ends with exit() when every port is marked.                 *)
LEMMA StopStep ==
  ASSUME SerialInv, Crash("noport"), TypeInv'
  PROVE  SerialInv' /\ EntriesStay /\ UNCHANGED <<now, sent>>
<1>1. /\ UNCHANGED <<now, natTable, heap, porttb, pktInBuf, pc, loc, sent>>
      /\ crashed' = "noport"
  BY DEF Crash
<1>2. Unfilled' = Unfilled /\ Unfinished' = Unfinished /\ Nexts' = Nexts
  BY <1>1 DEF Unfilled, Unfinished, Nexts
<1>3. Listed' = Listed /\ Entries' = Entries /\ Held' = Held /\ Bound' = Bound
  BY <1>1, <1>2 DEF Listed, Entries, Held, Bound, Leaving
<1>4. OneBusy'
  BY <1>1 DEF OneBusy, SerialInv
<1>5. ASSUME NEW u \in Threads PROVE Place(u)'
  <2>1. Place(u)
    BY DEF SerialInv
  <2>2. Scanning(u)' = Scanning(u)
    BY <1>1, <1>3 DEF Scanning
  <2>3. Searching(u)' = Searching(u)
    BY <1>1, <1>3 DEF Searching
  <2>4. NewTo(u)' = NewTo(u)
    BY <1>1, <1>3 DEF NewTo
  <2>5. Extending(u)' = Extending(u)
    BY <1>1, <1>3, <2>4 DEF Extending
  <2>6. Completing(u)' = Completing(u)
    BY <1>1, <1>3, <2>4 DEF Completing, Made
  <2> QED
    BY <1>1, <1>3, <2>1, <2>2, <2>3, <2>4, <2>5, <2>6 DEF Place, Parting
<1>6. EntriesStay
  BY <1>1, <1>3 DEF EntriesStay
<1>7. Agree(heap, porttb, Held, Bound)' /\ OneWay(Listed, natTable, Nexts, Unfilled)'
  BY <1>1, <1>2, <1>3 DEF SerialInv
<1> QED
  BY <1>1, <1>4, <1>5, <1>6, <1>7 DEF SerialInv

LEMMA PickPortStep ==
  ASSUME SerialInv, NEW t \in Threads, TypeInv', PickPort(t)
  PROVE  SerialInv' /\ EntriesStay /\ UNCHANGED <<now, sent>>
<1>1. CASE Crash("noport")
  BY <1>1, StopStep
<1>2. CASE ~Crash("noport")
  <2>1. PICK i \in Ports :
          /\ ~porttb[i]
          /\ loc' = [loc EXCEPT ![t].port = i]
          /\ pc' = [pc EXCEPT ![t] = "setEntry"]
          /\ UNCHANGED <<now, natTable, heap, porttb, pktInBuf, sent, crashed>>
    BY <1>2 DEF PickPort, Goto
  <2>2. /\ pc \in [Threads -> Labels] /\ loc \in [Threads -> Locals] /\ loc[t] \in Locals
        /\ OneBusy /\ Place(t) /\ pc[t] = "pickPort"
    BY SerialTypes DEF SerialInv, PickPort, At
  <2>3. Alone(t) /\ Alone(t)' /\ OneBusy' /\ pc'[t] = "setEntry"
    BY <2>1, <2>2, AloneStep DEF Away
  <2>4. /\ loc'[t].port = i /\ loc'[t].cur = loc[t].cur /\ loc'[t].head = loc[t].head
        /\ loc'[t].pkt = loc[t].pkt /\ loc'[t].new = loc[t].new
    BY <2>1, <2>2 DEF Locals
  <2>5. Made(t)' = Made(t)
    BY <2>1, <2>4 DEF Made
  <2>6. Unfilled = {} /\ Unfilled' = {} /\ Nexts' = Nexts
    BY <2>1, <2>2, <2>3, OpenNow, OpenNext DEF Nexts
  <2>7. Listed' = Listed
    BY <2>1, <2>6 DEF Listed
  <2>8. /\ Entries' = Entries
        /\ Held = Listed /\ Bound = Entries /\ Held' = Listed /\ Bound' = Entries
    BY <2>2, <2>3, <2>5, <2>7, OpenNow, OpenNext DEF Parting
  <2>9. Completing(t)'
    BY <2>1, <2>2, <2>4, <2>5, <2>7, <2>8 DEF Completing, NewTo, Place
  <2>10. Place(t)'
    BY <2>1, <2>3, <2>4, <2>9 DEF Place, Parting
  <2>11. Agree(heap, porttb, Held, Bound)' /\ OneWay(Listed, natTable, Nexts, Unfilled)'
    BY <2>1, <2>6, <2>7, <2>8 DEF SerialInv
  <2>12. EntriesStay
    BY <2>1, <2>8 DEF EntriesStay
  <2> QED
    BY <2>1, <2>3, <2>10, <2>11, <2>12, Reassemble DEF SerialInv
<1> QED
  BY <1>1, <1>2

(* The entry is complete: it holds a port that no other entry held.        *)
LEMMA SetEntryEffect ==
  ASSUME SerialInv, NEW t \in Threads, SetEntry(t)
  PROVE  LET c == Made(t)
             i == loc[t].port
         IN
         /\ Alone(t) /\ Alone(t)' /\ OneBusy' /\ pc'[t] = "print"
         /\ c \in Listed /\ c \notin Entries /\ Listed' = Listed /\ Entries' = Entries \cup {c}
         /\ Held = Listed /\ Bound = Entries /\ Held' = Listed /\ Bound' = Entries'
         /\ i \in Ports /\ ~porttb[i] /\ porttb' = [porttb EXCEPT ![i] = TRUE]
         /\ heap[c].itn = loc[t].pkt.flow /\ loc[t].pkt.flow \in Flows
         /\ heap'[c].itn = heap[c].itn /\ heap'[c].trans = i
         /\ heap'[c].accesstv = loc[t].tv
         /\ \A d \in Cells : /\ heap'[d].live = heap[d].live
                             /\ d # c => heap'[d] = heap[d]
         /\ NewTo(t)
         /\ OneWay(Listed, natTable, Nexts, Unfilled)'
         /\ Translate(t, loc[t].pkt.flow, i)
         /\ UNCHANGED <<now, natTable, pktInBuf, crashed>>
<1> DEFINE c == Made(t)
           i == loc[t].port
<1>1. /\ pc \in [Threads -> Labels] /\ loc \in [Threads -> Locals] /\ loc[t] \in Locals
      /\ heap \in [Cells -> Cell] /\ NULL \notin Cells /\ Listed \subseteq Cells
      /\ OneBusy /\ Place(t) /\ pc[t] = "setEntry" /\ Fits(pc[t], loc[t])
  BY SerialTypes DEF SerialInv, SetEntry, At
<1>2. Completing(t) /\ ~porttb[i] /\ i \in Ports /\ c \in Listed /\ c \in Cells
  BY <1>1 DEF Place, Completing, Fits
<1>3. /\ porttb' = [porttb EXCEPT ![i] = TRUE]
      /\ heap' = [heap EXCEPT ![c].trans = i, ![c].accesstv = loc[t].tv]
      /\ Translate(t, loc[t].pkt.flow, i)
      /\ UNCHANGED <<now, natTable, pktInBuf, crashed>>
  <2>1. (IF loc[t].head THEN {natTable, loc[t].new} ELSE {loc[t].cur}) = {c}
    BY <1>2 DEF Completing, Made
  <2> QED
    BY <1>1, <1>2, <2>1 DEF SetEntry
<1>4. loc[t].pkt.flow \in Flows
  BY <1>1, PacketKinds DEF Fits, Locals
<1>5. pc' = [pc EXCEPT ![t] = "print"]
  BY <1>3 DEF Translate, Goto
<1>6. Alone(t) /\ Alone(t)' /\ OneBusy' /\ pc'[t] = "print"
  BY <1>1, <1>5, AloneStep DEF Away
<1>7. /\ Entries = Listed \ {c} /\ Unfilled = {} /\ Unfilled' = {} /\ Entries' = Listed'
      /\ Held = Listed /\ Bound = Entries /\ Held' = Listed' /\ Bound' = Entries'
  BY <1>1, <1>6, OpenNow, OpenNext DEF Making, Parting
<1>8. /\ heap'[c].itn = heap[c].itn /\ heap'[c].trans = i
      /\ heap'[c].accesstv = loc[t].tv
      /\ \A d \in Cells : /\ heap'[d].live = heap[d].live
                          /\ heap'[d].next = heap[d].next
                          /\ d # c => heap'[d] = heap[d]
  BY <1>1, <1>2, <1>3 DEF Cell
<1>9. Nexts' = Nexts
  BY <1>8 DEF Nexts
<1>10. Listed' = Listed
  BY <1>3, <1>7, <1>9 DEF Listed
<1>11. OneWay(Listed, natTable, Nexts, Unfilled)'
  BY <1>3, <1>7, <1>9, <1>10 DEF SerialInv
<1>12. heap[c].itn = loc[t].pkt.flow /\ NewTo(t)
  BY <1>2 DEF Completing
<1>13. c \notin Entries /\ Entries' = Entries \cup {c}
  BY <1>2, <1>7, <1>10
<1> HIDE DEF c
<1> QED
  BY <1>2, <1>3, <1>4, <1>6, <1>7, <1>8, <1>10, <1>11, <1>12, <1>13 DEF c

LEMMA SetEntryStep ==
  ASSUME SerialInv, NEW t \in Threads, TypeInv', SetEntry(t)
  PROVE  SerialInv'
<1> DEFINE c == Made(t)
           i == loc[t].port
<1>1. /\ Alone(t)' /\ OneBusy' /\ pc'[t] = "print"
      /\ c \in Listed /\ Listed' = Listed /\ Entries' = Entries \cup {c}
      /\ Held = Listed /\ Bound = Entries /\ Held' = Listed /\ Bound' = Entries'
      /\ i \in Ports /\ ~porttb[i] /\ porttb' = [porttb EXCEPT ![i] = TRUE]
      /\ heap[c].itn = loc[t].pkt.flow /\ loc[t].pkt.flow \in Flows
      /\ heap'[c].itn = heap[c].itn /\ heap'[c].trans = i
      /\ NewTo(t)
      /\ OneWay(Listed, natTable, Nexts, Unfilled)'
      /\ crashed' = crashed
  BY SetEntryEffect
<1>2. \A d \in Cells : heap'[d].live = heap[d].live /\ (d # c => heap'[d] = heap[d])
  BY SetEntryEffect
<1>3. Entries \subseteq Cells /\ porttb \in [Ports -> BOOLEAN]
      /\ Agree(heap, porttb, Listed, Entries) /\ crashed # "segv"
  BY <1>1, SerialTypes DEF Entries, SerialInv
<1>4. Place(t)'
  BY <1>1 DEF Place, Parting
<1> HIDE DEF c, i
<1>5. c \notin Entries
  BY <1>1, <1>3 DEF NewTo
<1>6. \A d \in Entries : heap'[d] = heap[d]
  BY <1>2, <1>3, <1>5
<1>7. Agree(heap, porttb, Held, Bound)'
  <2>1. \A d \in Cells : heap'[d].live <=> d \in Held'
    BY <1>1, <1>2, <1>3 DEF Agree
  <2>2. \A p \in Ports : porttb'[p] <=> porttb[p] \/ p = i
    BY <1>1, <1>3
  <2>3. \A d \in Entries' : /\ heap'[d].itn \in Flows /\ heap'[d].trans \in Ports
                            /\ porttb'[heap'[d].trans]
    BY <1>1, <1>3, <1>6, <2>2 DEF Agree
  <2>4. \A p \in Ports : porttb'[p] => \E d \in Entries' : heap'[d].trans = p
    BY <1>1, <1>3, <1>6, <2>2 DEF Agree
  <2>5. ASSUME NEW a \in Entries, NEW b \in Entries, a # b
        PROVE  heap'[a].itn # heap'[b].itn /\ heap'[a].trans # heap'[b].trans
    BY <1>3, <1>6, <2>5 DEF Agree
  <2>6. ASSUME NEW a \in Entries
        PROVE  heap'[a].itn # heap'[c].itn /\ heap'[a].trans # heap'[c].trans
    <3>1. heap[a].itn # loc[t].pkt.flow
      BY <1>1 DEF NewTo
    <3>2. heap[a].trans # i
      BY <1>1, <1>3 DEF Agree
    <3> QED
      BY <1>1, <1>6, <3>1, <3>2
  <2>7. \A a, b \in Entries' : a # b => /\ heap'[a].itn # heap'[b].itn
                                        /\ heap'[a].trans # heap'[b].trans
    BY <1>1, <2>5, <2>6
  <2> QED
    BY <1>1, <2>1, <2>3, <2>4, <2>7 DEF Agree
<1> QED
  BY <1>1, <1>3, <1>4, <1>7, Reassemble

LEMMA SerialStep ==
  ASSUME OnePacketAtATime, EnoughHeap
  PROVE  SerialInv /\ [Next]_vars => SerialInv'
<1> SUFFICES ASSUME SerialInv, [Next]_vars PROVE SerialInv'
  OBVIOUS
<1>1. TypeInv'
  BY TypeStep DEF SerialInv
<1>2. CASE UNCHANGED vars \/ Tick
  <2>1. UNCHANGED <<natTable, heap, porttb, pktInBuf, pc, loc, sent, crashed>>
    BY <1>2 DEF vars, Tick
  <2>2. Unfilled' = Unfilled /\ Unfinished' = Unfinished /\ Nexts' = Nexts
    BY <2>1 DEF Unfilled, Unfinished, Nexts
  <2>3. Listed' = Listed /\ Entries' = Entries /\ Held' = Held /\ Bound' = Bound
    BY <2>1, <2>2 DEF Listed, Entries, Held, Bound, Leaving
  <2>4. OneBusy' /\ crashed' # "segv"
    BY <2>1 DEF OneBusy, SerialInv
  <2>5. ASSUME NEW u \in Threads PROVE Place(u)'
    <3>1. Place(u)
      BY DEF SerialInv
    <3>2. NewTo(u)' = NewTo(u)
      BY <2>1, <2>3 DEF NewTo
    <3>3. Scanning(u)' = Scanning(u) /\ Searching(u)' = Searching(u)
      BY <2>1, <2>3 DEF Scanning, Searching
    <3>4. Extending(u)' = Extending(u) /\ Completing(u)' = Completing(u)
      BY <2>1, <2>3, <3>2 DEF Extending, Completing, Made
    <3> QED
      BY <2>1, <2>3, <3>1, <3>2, <3>3, <3>4 DEF Place, Parting
  <2>6. Agree(heap, porttb, Held, Bound)' /\ OneWay(Listed, natTable, Nexts, Unfilled)'
    BY <2>1, <2>2, <2>3 DEF SerialInv
  <2> QED
    BY <1>1, <2>4, <2>5, <2>6 DEF SerialInv
<1>3. ASSUME NEW t \in Threads, Receive(t) \/ Handle(t) PROVE SerialInv'
  <2>1. CASE \/ Receive(t) \/ DropOther(t) \/ AddPktBuf(t) \/ DropFull(t)
             \/ EndScan(t) \/ StartPrint(t) \/ PrintEntry(t) \/ EndPrint(t)
             \/ DropUnknown(t) \/ Accept(t)
    BY <1>1, <2>1, BeforeListSteps
  <2>2. CASE \/ StartExpiry(t) \/ ReadClock(t) \/ ScanEntry(t) \/ NextEntry(t)
             \/ StartOutbound(t) \/ StartInbound(t) \/ SearchOn(t) \/ FindOn(t)
    BY <1>1, <2>2, WalkSteps
  <2>3. CASE Unlink(t) \/ Unmark(t) \/ Free(t) \/ SearchHit(t) \/ FindHit(t)
    BY <1>1, <2>3, UnlinkStep, UnmarkStep, FreeStep, HitStep
  <2>4. CASE Append(t) \/ NewHead(t) \/ AppendFill(t) \/ HeadFill(t)
    BY <1>1, <2>4, MallocStep, FillStep
  <2>5. CASE PickPort(t) \/ SetEntry(t)
    BY <1>1, <2>5, PickPortStep, SetEntryStep
  <2> QED
    BY <1>3, <2>1, <2>2, <2>3, <2>4, <2>5 DEF Handle
<1> QED
  BY <1>2, <1>3 DEF Next

LEMMA SerialSound ==
  SerialInv => TableSound
<1> SUFFICES ASSUME SerialInv PROVE TableSound
  OBVIOUS
<1>1. Agree(heap, porttb, Held, Bound) /\ crashed # "segv"
  BY DEF SerialInv
<1>2. Held \subseteq Cells
  <2>1. \A t \in Threads : pc[t] \in Parting => loc[t].new \in Cells
    BY SerialTypes DEF Parting, Fits
  <2> QED
    BY <2>1 DEF Held, Leaving, Listed, Reachable
<1>3. {c \in Cells : heap[c].live} = Held
  BY <1>1, <1>2 DEF Agree
<1>4. {p \in Ports : porttb[p]} = {heap[c].trans : c \in Bound}
  BY <1>1 DEF Agree
<1>5. \A c, d \in Entries : c # d =>
        heap[c].itn # heap[d].itn /\ heap[c].trans # heap[d].trans
  BY <1>1 DEF Agree, Bound
<1> QED
  BY <1>1, <1>3, <1>4, <1>5 DEF TableSound, Held, Bound, Parting

(* With one packet in Callback() at a time, and a heap that does not run   *)
(* out: no chunk leaks and none is used after free(), the list has no cycle*)
(* that would hide an entry, a port is marked exactly when one entry holds *)
(* it, and no flow has two entries.                                        *)
THEOREM OnePacketTableSound ==
  ASSUME OnePacketAtATime, EnoughHeap
  PROVE  Spec => []TableSound
<1>1. SerialInv /\ [Next]_vars => SerialInv'
  BY SerialStep
<1> QED
  BY <1>1, SerialInit, SerialSound, PTL DEF Spec

-----------------------------------------------------------------------------
(* The time stamps, one packet at a time.                                  *)

(* The entries that remove_expiry() has passed are not expired; they are   *)
(* the beginning of the list, up to `table`.                               *)
Passed(t) ==
  \E V \in SUBSET Listed :
    /\ natTable \in V \cup {loc[t].cur}
    /\ loc[t].cur \notin V
    /\ \A d \in V : /\ heap[d].next \in V \cup {loc[t].cur}
                    /\ d = natTable \/ \E c \in V : heap[c].next = d
                    /\ ~LooksExpired(loc[t].snap, heap[d].accesstv)
    /\ \/ loc[t].prev = NULL /\ V = {} /\ natTable = loc[t].cur
       \/ loc[t].prev \in V /\ heap[loc[t].prev].next = loc[t].cur

Removing == {"scan", "next", "unlink"} \cup Parting

Stamped == {"recv", "expire", "clock", "scan", "next", "unlink", "unmark", "free", "lookup",
            "search", "append", "appendFill", "newHead", "headFill", "pickPort", "setEntry",
            "find"}

Timely(t) ==
  /\ pc[t] \in Stamped =>
       /\ loc[t].tv <= now
       /\ \A c \in Entries : heap[c].accesstv <= loc[t].tv
  /\ pc[t] \in Removing =>
       loc[t].tv <= loc[t].snap /\ loc[t].snap <= now /\ Passed(t)
  /\ pc[t] = "next" => ~LooksExpired(loc[t].snap, heap[loc[t].cur].accesstv)
  /\ pc[t] = "unlink" => LooksExpired(loc[t].snap, heap[loc[t].cur].accesstv)
  /\ pc[t] \in {"lookup", "search", "find"} =>
       \A c \in Entries : loc[t].snap - heap[c].accesstv < Expiry

TimeInv ==
  /\ SerialInv
  /\ \A c \in Entries : heap[c].accesstv <= now
  /\ \A t \in Threads : Timely(t)

LEMMA OwnMove ==
  ASSUME pc \in [Threads -> Labels], NEW t \in Threads, Receive(t) \/ Handle(t)
  PROVE  \A u \in Threads : u # t => pc'[u] = pc[u]
<1>1. pc' = pc \/ \E b : pc' = [pc EXCEPT ![t] = b]
  <2>1. CASE Receive(t) \/ DropOther(t) \/ DropFull(t) \/ AddPktBuf(t)
             \/ DropUnknown(t) \/ Accept(t)
    BY <2>1 DEF Receive, DropOther, DropFull, AddPktBuf, DropUnknown, Accept, Verdict, Goto
  <2>2. CASE InsideStep(t)
    BY <2>2, InsideMove
  <2> QED
    BY <2>1, <2>2 DEF Handle, InsideStep
<1> QED
  BY <1>1

LEMMA StepAlone ==
  ASSUME OnePacketAtATime, SerialInv, NEW t \in Threads, Receive(t) \/ Handle(t)
  PROVE  Alone(t) /\ Alone(t)'
<1>1. pc \in [Threads -> Labels] /\ OneBusy
  BY SerialTypes DEF SerialInv
<1>2. Alone(t)
  <2>1. CASE Receive(t)
    BY <2>1, ReceiveAlone
  <2>2. CASE Handle(t)
    <3>1. pc[t] \notin Away
      <4>1. CASE InsideStep(t)
        BY <1>1, <4>1, InsideMove DEF InBuffer, Away
      <4>2. CASE ~InsideStep(t)
        BY <2>2, <4>2 DEF Handle, InsideStep, DropOther, AddPktBuf, DropFull, DropUnknown,
                          Accept, At, Away
      <4> QED
        BY <4>1, <4>2
    <3> QED
      BY <1>1, <3>1 DEF OneBusy, Alone
  <2> QED
    BY <2>1, <2>2
<1> QED
  BY <1>1, <1>2, OwnMove DEF Alone

LEMMA TimeReassemble ==
  ASSUME NEW t \in Threads, Alone(t)', SerialInv', Timely(t)',
         \A c \in Entries' : heap'[c].accesstv <= now'
  PROVE  TimeInv'
<1>1. ASSUME NEW u \in Threads, u # t PROVE Timely(u)'
  <2>1. pc'[u] \in Away
    BY <1>1 DEF Alone
  <2> QED
    BY <2>1 DEF Timely, Away, Stamped, Removing, Parting
<1> QED
  BY <1>1 DEF TimeInv

LEMMA TimeInit == Init => TimeInv
<1> SUFFICES ASSUME Init PROVE TimeInv
  OBVIOUS
<1>1. SerialInv
  BY SerialInit
<1>2. \A t \in Threads : Timely(t)
  BY DEF Init, Timely, Stamped, Removing, Parting
<1>3. \A c \in Cells : heap[c].accesstv <= now
  BY DEF Init
<1>4. Entries \subseteq Cells
  BY DEF Entries, Listed, Reachable
<1> QED
  BY <1>1, <1>2, <1>3, <1>4 DEF TimeInv

LEMMA TimeTypes ==
  ASSUME TimeInv, NEW t \in Threads
  PROVE  /\ now \in Nat /\ Expiry \in Nat /\ loc[t] \in Locals
         /\ loc[t].tv \in Nat /\ loc[t].snap \in Nat
         /\ Entries \subseteq Cells
         /\ \A c \in Cells : heap[c].accesstv \in Nat
         /\ loc \in [Threads -> Locals] /\ pc \in [Threads -> Labels]
<1>1. /\ now \in Nat /\ loc[t] \in Locals /\ heap \in [Cells -> Cell]
      /\ loc \in [Threads -> Locals] /\ pc \in [Threads -> Labels]
  BY SerialTypes DEF TimeInv
<1>2. Entries \subseteq Cells
  BY DEF Entries, Listed, Reachable
<1> QED
  BY <1>1, <1>2, TimeAssumption DEF Locals, Cell

(* Entries that stay as they are were not used later than now.             *)
LEMMA StaysOld ==
  ASSUME TimeInv, EntriesStay, now' = now
  PROVE  \A c \in Entries' : heap'[c].accesstv <= now'
  BY DEF EntriesStay, TimeInv

LEMMA QuietStays ==
  ASSUME SerialInv, NEW t \in Threads, Alone(t), Alone(t)',
         pc[t] \notin Making \cup Parting, pc'[t] \notin Making \cup Parting,
         UNCHANGED <<natTable, heap, porttb>>
  PROVE  EntriesStay /\ Entries = Listed
  BY TableStays DEF EntriesStay

LEMMA FirstStepsTimely ==
  ASSUME OnePacketAtATime, TimeInv, SerialInv', NEW t \in Threads,
         Receive(t) \/ AddPktBuf(t) \/ StartExpiry(t) \/ ReadClock(t)
  PROVE  EntriesStay /\ Timely(t)' /\ UNCHANGED <<now, sent>>
<1>1. /\ now \in Nat /\ loc[t] \in Locals /\ loc[t].tv \in Nat
      /\ loc \in [Threads -> Locals] /\ pc \in [Threads -> Labels] /\ Timely(t)
      /\ \A c \in Entries : heap[c].accesstv <= now /\ heap[c].accesstv \in Nat
  BY TimeTypes DEF TimeInv
<1>2. /\ UNCHANGED <<now, natTable, heap, porttb, sent>>
      /\ pc[t] \in {"idle", "recv", "expire", "clock"}
      /\ pc'[t] \in {"recv", "expire", "clock", "scan"}
  BY <1>1 DEF Receive, AddPktBuf, StartExpiry, ReadClock, At, Goto
<1>3. Alone(t) /\ Alone(t)'
  BY StepAlone DEF TimeInv, Handle
<1>4. EntriesStay /\ Entries = Listed
  BY <1>2, <1>3, QuietStays DEF TimeInv, Making, Parting
<1>5. Timely(t)'
  <2> USE DEF Removing, Parting
  <2>1. CASE Receive(t)
    <3>1. pc'[t] = "recv" /\ loc'[t].tv = now
      BY <1>1, <2>1 DEF Receive, Goto, NoLocals
    <3> QED
      BY <1>1, <1>2, <1>4, <3>1 DEF Timely, EntriesStay
  <2>2. CASE AddPktBuf(t)
    <3>1. pc'[t] = "expire" /\ loc'[t].tv \in {loc[t].tv, now} /\ pc[t] = "recv"
      BY <1>1, <2>2 DEF AddPktBuf, Goto, At, Locals
    <3>2. loc'[t].tv <= now /\ \A c \in Entries : heap[c].accesstv <= loc'[t].tv
      BY <1>1, <3>1 DEF Timely, Stamped
    <3> QED
      BY <1>2, <1>4, <3>1, <3>2 DEF Timely, EntriesStay
  <2>3. CASE StartExpiry(t)
    <3>1. pc'[t] = "clock" /\ pc[t] = "expire" /\ loc'[t].tv = loc[t].tv
      BY <1>1, <2>3 DEF StartExpiry, Goto, At, Locals
    <3>2. loc[t].tv <= now /\ \A c \in Entries : heap[c].accesstv <= loc[t].tv
      BY <1>1, <3>1 DEF Timely, Stamped
    <3> QED
      BY <1>2, <1>4, <3>1, <3>2 DEF Timely, EntriesStay
  <2>4. CASE ReadClock(t)
    <3>1. /\ pc'[t] = "scan" /\ pc[t] = "clock" /\ loc'[t].tv = loc[t].tv
          /\ loc'[t].snap = now /\ loc'[t].cur = natTable /\ loc'[t].prev = NULL
      BY <1>1, <2>4, SerialTypes DEF ReadClock, Goto, At, Locals, Place, TimeInv
    <3>2. Passed(t)'
      <4>1. {} \in SUBSET Listed' /\ natTable' \in {} \cup {loc'[t].cur}
            /\ natTable' = loc'[t].cur
        BY <1>2, <3>1
      <4> QED
        BY <3>1, <4>1 DEF Passed
    <3>3. loc[t].tv <= now /\ \A c \in Entries : heap[c].accesstv <= loc[t].tv
      BY <1>1, <3>1 DEF Timely, Stamped
    <3> QED
      BY <1>1, <1>2, <1>4, <3>1, <3>2, <3>3 DEF Timely, EntriesStay
  <2> QED
    BY <2>1, <2>2, <2>3, <2>4
<1> QED
  BY <1>2, <1>4, <1>5

(* remove_expiry() reads the time stamp of the entry it is at.             *)
LEMMA ScanTimely ==
  ASSUME OnePacketAtATime, TimeInv, SerialInv', NEW t \in Threads, ScanEntry(t)
  PROVE  EntriesStay /\ Timely(t)' /\ UNCHANGED <<now, sent>>
<1> DEFINE Old == LooksExpired(loc[t].snap, heap[loc[t].cur].accesstv)
<1>1. loc \in [Threads -> Locals] /\ pc \in [Threads -> Labels] /\ Timely(t)
  BY TimeTypes DEF TimeInv
<1>2. /\ UNCHANGED <<now, natTable, heap, porttb, loc, sent>>
      /\ pc[t] = "scan" /\ pc'[t] = IF Old THEN "unlink" ELSE "next"
  BY <1>1 DEF ScanEntry, At, Goto
<1>3. /\ Alone(t) /\ Alone(t)' /\ pc'[t] \notin Making \cup Parting
      /\ Listed' = Listed
  BY WalkMoves DEF TimeInv
<1>4. EntriesStay
  BY <1>2, <1>3, QuietStays DEF TimeInv, Making, Parting
<1>5. /\ loc[t].tv <= now /\ \A d \in Entries : heap[d].accesstv <= loc[t].tv
      /\ loc[t].tv <= loc[t].snap /\ loc[t].snap <= now /\ Passed(t)
  BY <1>1, <1>2 DEF Timely, Stamped, Removing
<1>6. Passed(t)'
  BY <1>2, <1>3, <1>5 DEF Passed
<1>7. Timely(t)'
  BY <1>2, <1>4, <1>5, <1>6 DEF Timely, EntriesStay
<1> QED
  BY <1>2, <1>4, <1>7

(* remove_expiry() goes on to the next entry, which it has not passed.     *)
LEMMA NextTimely ==
  ASSUME OnePacketAtATime, TimeInv, SerialInv', NEW t \in Threads, NextEntry(t)
  PROVE  EntriesStay /\ Timely(t)' /\ UNCHANGED <<now, sent>>
<1> DEFINE c == loc[t].cur
           after == heap[c].next
<1>1. /\ loc[t] \in Locals /\ loc \in [Threads -> Locals] /\ pc \in [Threads -> Labels]
      /\ heap \in [Cells -> Cell] /\ NULL \notin Cells /\ Listed \subseteq Cells /\ Timely(t)
      /\ Fits(pc[t], loc[t])
  BY TimeTypes, SerialTypes DEF TimeInv
<1>2. /\ UNCHANGED <<now, natTable, heap, porttb, sent>>
      /\ pc[t] = "next" /\ c \in Cells /\ pc'[t] = "scan"
      /\ loc'[t].cur = after /\ loc'[t].prev = c
      /\ loc'[t].tv = loc[t].tv /\ loc'[t].snap = loc[t].snap
  BY <1>1 DEF NextEntry, At, Goto, Fits, Locals
<1>3. /\ Alone(t) /\ Alone(t)' /\ pc'[t] \notin Making \cup Parting
      /\ Entries = Listed /\ Listed' = Listed
      /\ IsClosed(Listed, natTable, Nexts, {})
  BY WalkMoves DEF TimeInv
<1>4. EntriesStay
  BY <1>2, <1>3, QuietStays DEF TimeInv, Making, Parting
<1>5. /\ loc[t].tv <= now /\ \A d \in Entries : heap[d].accesstv <= loc[t].tv
      /\ loc[t].tv <= loc[t].snap /\ loc[t].snap <= now /\ Passed(t)
      /\ ~LooksExpired(loc[t].snap, heap[c].accesstv)
  BY <1>1, <1>2 DEF Timely, Stamped, Removing
<1>6. PICK V \in SUBSET Listed :
        /\ natTable \in V \cup {c}
        /\ c \notin V
        /\ \A d \in V : /\ heap[d].next \in V \cup {c}
                        /\ d = natTable \/ \E a \in V : heap[a].next = d
                        /\ ~LooksExpired(loc[t].snap, heap[d].accesstv)
        /\ \/ loc[t].prev = NULL /\ V = {} /\ natTable = c
           \/ loc[t].prev \in V /\ heap[loc[t].prev].next = c
  BY <1>5 DEF Passed
<1>7. c \in Listed /\ natTable \in Listed \cup {NULL}
      /\ \A d \in Listed : heap[d].next \in Listed \cup {NULL}
  <2>1. natTable \in Listed \cup {NULL}
        /\ \A d \in Listed : heap[d].next \in Listed \cup {NULL}
    BY <1>1, <1>3 DEF IsClosed, Nexts
  <2>2. c \in Listed \cup {NULL}
    BY <1>6, <2>1
  <2> QED
    BY <1>1, <1>2, <2>1, <2>2
<1>8. /\ \A d \in Listed : heap[d].next # NULL => heap[d].next # natTable
      /\ \A a, d \in Listed : a # d /\ heap[a].next # NULL => heap[a].next # heap[d].next
  <2>1. Unfilled = {}
    BY <1>2, <1>3, OpenNow
  <2>2. \A d \in Listed : Nexts[d] = heap[d].next
    BY <1>1 DEF Nexts
  <2> QED
    BY <2>1, <2>2 DEF TimeInv, SerialInv, OneWay
<1> DEFINE W == V \cup {c}
<1>9. W \in SUBSET Listed /\ natTable \in W \cup {after}
  BY <1>6, <1>7
<1>10. c = natTable \/ \E a \in V : heap[a].next = c
  BY <1>6
<1>11. after \notin W
  <2>1. after \in Listed \cup {NULL}
    BY <1>7
  <2>2. ASSUME after \in V PROVE FALSE
    <3>1. after # NULL /\ after # natTable
      BY <1>1, <1>7, <1>8, <2>2
    <3>2. PICK a \in V : heap[a].next = after
      BY <1>6, <2>2, <3>1
    <3>3. a # c /\ a \in Listed
      BY <1>6
    <3> QED
      BY <1>7, <1>8, <3>1, <3>2, <3>3
  <2>3. ASSUME after = c PROVE FALSE
    <3>1. after # NULL /\ c # natTable
      BY <1>1, <1>2, <1>7, <1>8, <2>3
    <3>2. PICK a \in V : heap[a].next = c
      BY <1>10, <3>1
    <3>3. a # c /\ a \in Listed
      BY <1>6
    <3> QED
      BY <1>7, <1>8, <2>3, <3>1, <3>2, <3>3
  <2> QED
    BY <2>2, <2>3
<1>12. \A d \in W : /\ heap[d].next \in W \cup {after}
                    /\ d = natTable \/ \E a \in W : heap[a].next = d
                    /\ ~LooksExpired(loc[t].snap, heap[d].accesstv)
  BY <1>5, <1>6, <1>10
<1>13. c \in W
  OBVIOUS
<1> HIDE DEF W
<1>14. Passed(t)'
  BY <1>2, <1>3, <1>9, <1>11, <1>12, <1>13 DEF Passed
<1>15. Timely(t)'
  BY <1>2, <1>4, <1>5, <1>14 DEF Timely, EntriesStay, Removing, Parting
<1> QED
  BY <1>2, <1>4, <1>15

(* At the end of the list, remove_expiry() has passed all of it.           *)
LEMMA EndScanTimely ==
  ASSUME OnePacketAtATime, TimeInv, SerialInv', NEW t \in Threads, EndScan(t)
  PROVE  EntriesStay /\ Timely(t)' /\ UNCHANGED <<now, sent>>
<1>1. /\ loc \in [Threads -> Locals] /\ pc \in [Threads -> Labels] /\ Timely(t)
      /\ NULL \notin Cells /\ Listed \subseteq Cells /\ Expiry \in Nat
      /\ loc[t].snap \in Nat /\ \A d \in Cells : heap[d].accesstv \in Nat
  BY TimeTypes, SerialTypes DEF TimeInv
<1>2. /\ UNCHANGED <<now, natTable, heap, porttb, sent, loc>>
      /\ pc[t] = "scan" /\ loc[t].cur = NULL /\ pc'[t] = "lookup"
  BY <1>1 DEF EndScan, At, Goto
<1>3. Alone(t) /\ Alone(t)'
  BY StepAlone DEF TimeInv, Handle
<1>4. EntriesStay /\ Entries = Listed /\ Unfilled = {}
  BY <1>2, <1>3, QuietStays, OpenNow DEF TimeInv, Making, Parting
<1>5. Passed(t) /\ loc[t].tv <= now /\ \A d \in Entries : heap[d].accesstv <= loc[t].tv
  BY <1>1, <1>2 DEF Timely, Stamped, Removing
<1>6. PICK V \in SUBSET Listed :
        /\ natTable \in V \cup {NULL}
        /\ \A d \in V : /\ heap[d].next \in V \cup {NULL}
                        /\ ~LooksExpired(loc[t].snap, heap[d].accesstv)
  BY <1>2, <1>5 DEF Passed
<1>7. V \in SUBSET Cells /\ IsClosed(V, natTable, Nexts, {})
  BY <1>1, <1>6 DEF IsClosed, Nexts
<1>8. Listed \subseteq V
  BY <1>4, <1>7, ReachableLeast DEF Listed
<1>9. \A d \in Entries : loc[t].snap - heap[d].accesstv < Expiry
  BY <1>1, <1>4, <1>6, <1>8 DEF LooksExpired
<1>10. Timely(t)'
  BY <1>2, <1>4, <1>5, <1>9 DEF Timely, EntriesStay, Removing, Parting
<1> QED
  BY <1>2, <1>4, <1>10

LEMMA UnlinkTimely ==
  ASSUME TimeInv, SerialInv', NEW t \in Threads, Unlink(t)
  PROVE  /\ Timely(t)' /\ Alone(t)'
         /\ \A d \in Entries' : heap'[d].accesstv <= now'
<1> DEFINE c == loc[t].cur
           p == loc[t].prev
<1>1. /\ loc[t] \in Locals /\ heap \in [Cells -> Cell] /\ NULL \notin Cells
      /\ Listed \subseteq Cells /\ Timely(t) /\ pc[t] = "unlink" /\ Nexts \in Pointers
  BY SerialTypes DEF TimeInv, Unlink, At
<1>2. /\ c \in Listed /\ Entries = Listed /\ Unfilled = {}
      /\ Alone(t)' /\ pc'[t] = "unmark"
      /\ loc'[t] = [loc[t] EXCEPT !.new = c, !.cur = heap[c].next]
      /\ Listed' = Listed \ {c} /\ Entries' = Listed'
      /\ now' = now
  BY UnlinkEffect DEF TimeInv
<1>3. \A d \in Cells : /\ heap'[d].accesstv = heap[d].accesstv
                       /\ d # p => heap'[d].next = heap[d].next
  BY UnlinkEffect DEF TimeInv
<1>4. \/ p = NULL /\ natTable = c /\ natTable' = heap[c].next
      \/ /\ p \in Listed \ {c} /\ natTable' = natTable /\ natTable # c
         /\ heap[p].next = c /\ heap'[p].next = heap[c].next
  BY UnlinkEffect DEF TimeInv
<1>5. /\ \A d \in Listed : heap[d].next # NULL => heap[d].next # natTable
      /\ \A a, d \in Listed : a # d /\ heap[a].next # NULL => heap[a].next # heap[d].next
  <2>1. \A d \in Listed : Nexts[d] = heap[d].next
    BY <1>1 DEF Nexts
  <2> QED
    BY <1>2, <2>1 DEF TimeInv, SerialInv, OneWay
<1>6. /\ loc'[t].cur = heap[c].next /\ loc'[t].prev = p
      /\ loc'[t].tv = loc[t].tv /\ loc'[t].snap = loc[t].snap
  BY <1>1, <1>2 DEF Locals
<1>7. /\ loc[t].tv <= now /\ \A d \in Entries : heap[d].accesstv <= loc[t].tv
      /\ loc[t].tv <= loc[t].snap /\ loc[t].snap <= now /\ Passed(t)
  BY <1>1 DEF Timely, Stamped, Removing
<1>8. PICK V \in SUBSET Listed :
        /\ natTable \in V \cup {c}
        /\ c \notin V
        /\ \A d \in V : /\ heap[d].next \in V \cup {c}
                        /\ d = natTable \/ \E a \in V : heap[a].next = d
                        /\ ~LooksExpired(loc[t].snap, heap[d].accesstv)
        /\ \/ p = NULL /\ V = {} /\ natTable = c
           \/ p \in V /\ heap[p].next = c
  BY <1>7 DEF Passed
<1> DEFINE after == heap[c].next
<1>9. after \in Cells \cup {NULL}
  BY <1>1, <1>2 DEF Cell
<1>10. V \in SUBSET Listed'
  BY <1>2, <1>8
<1>11. CASE p = NULL
  <2>1. V = {} /\ natTable' = after
    BY <1>1, <1>4, <1>8, <1>11
  <2> QED
    <3>1. Passed(t)'
      BY <1>6, <1>10, <1>11, <2>1 DEF Passed
    <3>2. Timely(t)'
      BY <1>1, <1>2, <1>3, <1>6, <1>7, <3>1 DEF Timely, Removing, Parting
    <3> QED
      BY <1>1, <1>2, <1>3, <3>2 DEF TimeInv
<1>12. CASE p # NULL
  <2>1. /\ p \in V /\ heap[p].next = c /\ natTable' = natTable /\ natTable \in V
        /\ heap'[p].next = after
    BY <1>4, <1>8, <1>12
  <2>2. \A d \in V : d # p => heap[d].next \in V /\ heap'[d].next = heap[d].next
    <3>1. TAKE d \in V
    <3>2. d # p => heap[d].next # c
      <4>1. c # NULL
        BY <1>1, <1>2
      <4> QED
        BY <1>5, <1>8, <2>1, <4>1
    <3> QED
      BY <1>1, <1>3, <1>8, <3>2
  <2>3. \A d \in V : heap'[d].next \in V \cup {after}
    BY <2>1, <2>2
  <2>4. after \notin V
    <3> SUFFICES ASSUME after \in V PROVE FALSE
      OBVIOUS
    <3>1. after # NULL /\ after # natTable
      BY <1>1, <1>2, <1>5, <1>8
    <3>2. PICK a \in V : heap[a].next = after
      BY <1>8, <3>1
    <3>3. a # c /\ a \in Listed
      BY <1>8
    <3> QED
      BY <1>2, <1>5, <3>1, <3>2, <3>3
  <2>5. \A d \in V : d = natTable' \/ \E a \in V : heap'[a].next = d
    <3>1. TAKE d \in V
    <3>2. CASE d # natTable
      <4>1. PICK a \in V : heap[a].next = d
        BY <1>8, <3>2
      <4>2. a # p
        BY <1>8, <2>1, <4>1
      <4> QED
        BY <2>2, <4>1, <4>2
    <3> QED
      BY <2>1, <3>2
  <2>6. \A d \in V : ~LooksExpired(loc'[t].snap, heap'[d].accesstv)
    BY <1>1, <1>3, <1>6, <1>8
  <2>7. Passed(t)'
    BY <1>6, <1>10, <2>1, <2>3, <2>4, <2>5, <2>6 DEF Passed
  <2>8. Timely(t)'
    BY <1>1, <1>2, <1>3, <1>6, <1>7, <2>7 DEF Timely, Removing, Parting
  <2> QED
    BY <1>1, <1>2, <1>3, <2>8 DEF TimeInv
<1> QED
  BY <1>11, <1>12

(* The port and the chunk are given back; the entries are as before.       *)
LEMMA PartingTimely ==
  ASSUME TimeInv, SerialInv', NEW t \in Threads, Unmark(t) \/ Free(t)
  PROVE  EntriesStay /\ Timely(t)' /\ UNCHANGED <<now, sent>>
<1>1. /\ loc[t] \in Locals /\ Listed \subseteq Cells /\ Timely(t)
  BY SerialTypes DEF TimeInv
<1>2. /\ pc[t] \in Parting /\ pc'[t] \in {"free", "scan"}
      /\ Entries = Listed /\ Listed' = Listed /\ Entries' = Listed
      /\ \A d \in Listed : heap'[d] = heap[d]
      /\ UNCHANGED <<now, natTable, sent>>
  BY <1>1, UnmarkEffect, FreeEffect DEF TimeInv, Parting
<1>3. /\ loc'[t].tv = loc[t].tv /\ loc'[t].snap = loc[t].snap
      /\ loc'[t].cur = loc[t].cur /\ loc'[t].prev = loc[t].prev
  <2>1. CASE Unmark(t)
    BY <2>1, UnmarkEffect DEF TimeInv
  <2>2. CASE Free(t)
    <3>1. loc'[t] = [loc[t] EXCEPT !.new = NULL]
      BY <2>2, FreeEffect DEF TimeInv
    <3> QED
      BY <1>1, <3>1 DEF Locals
  <2> QED
    BY <2>1, <2>2
<1>4. EntriesStay
  BY <1>2 DEF EntriesStay
<1>5. /\ loc[t].tv <= now /\ \A d \in Entries : heap[d].accesstv <= loc[t].tv
      /\ loc[t].tv <= loc[t].snap /\ loc[t].snap <= now /\ Passed(t)
  BY <1>1, <1>2 DEF Timely, Stamped, Removing, Parting
<1>6. Passed(t)'
  BY <1>2, <1>3, <1>5 DEF Passed
<1>7. Timely(t)'
  BY <1>2, <1>3, <1>4, <1>5, <1>6 DEF Timely, EntriesStay, Removing, Parting
<1> QED
  BY <1>2, <1>4, <1>7

(* The search, and the making of a new entry, keep the time stamp.         *)
LEMMA SearchTimely ==
  ASSUME OnePacketAtATime, TimeInv, SerialInv', NEW t \in Threads,
         StartOutbound(t) \/ StartInbound(t) \/ SearchOn(t) \/ FindOn(t)
  PROVE  EntriesStay /\ Timely(t)' /\ UNCHANGED <<now, sent>>
<1>1. /\ loc[t] \in Locals /\ loc \in [Threads -> Locals] /\ pc \in [Threads -> Labels]
      /\ Timely(t)
  BY TimeTypes DEF TimeInv
<1>2. /\ Alone(t) /\ Alone(t)'
      /\ pc[t] \notin Making \cup Parting /\ pc'[t] \notin Making \cup Parting
      /\ UNCHANGED <<natTable, heap, porttb>>
  BY WalkMoves DEF TimeInv
<1>3. EntriesStay
  BY <1>2, QuietStays DEF TimeInv
<1>4. /\ UNCHANGED <<now, sent>>
      /\ pc[t] \in {"lookup", "search", "find"}
      /\ pc'[t] \in {"search", "newHead", "find", "append"}
  <2>1. CASE StartOutbound(t) \/ StartInbound(t)
    BY <1>1, <2>1 DEF StartOutbound, StartInbound, At, Goto
  <2>2. CASE SearchOn(t) \/ FindOn(t)
    BY <1>1, <2>2 DEF SearchOn, FindOn, At, Goto
  <2> QED
    BY <2>1, <2>2
<1>5. loc'[t].tv = loc[t].tv /\ loc'[t].snap = loc[t].snap
  <2>1. CASE StartOutbound(t) \/ StartInbound(t)
    BY <1>1, <2>1 DEF StartOutbound, StartInbound, Locals
  <2>2. CASE SearchOn(t) \/ FindOn(t)
    BY <1>1, <2>2 DEF SearchOn, FindOn, Locals
  <2> QED
    BY <2>1, <2>2
<1>6. /\ loc[t].tv <= now /\ \A c \in Entries : heap[c].accesstv <= loc[t].tv
      /\ \A c \in Entries : loc[t].snap - heap[c].accesstv < Expiry
  BY <1>1, <1>4 DEF Timely, Stamped
<1>7. Timely(t)'
  BY <1>3, <1>4, <1>5, <1>6 DEF Timely, EntriesStay, Removing, Parting
<1> QED
  BY <1>3, <1>4, <1>7

LEMMA MakingTimely ==
  ASSUME EnoughHeap, TimeInv, TypeInv', SerialInv', NEW t \in Threads,
         \/ Append(t) \/ NewHead(t) \/ AppendFill(t) \/ HeadFill(t) \/ PickPort(t)
  PROVE  EntriesStay /\ Timely(t)' /\ UNCHANGED <<now, sent>>
<1>1. /\ loc[t] \in Locals /\ loc \in [Threads -> Locals] /\ pc \in [Threads -> Labels]
      /\ Timely(t)
  BY TimeTypes DEF TimeInv
<1>2. EntriesStay /\ UNCHANGED <<now, sent>>
  BY MallocStep, FillStep, PickPortStep DEF TimeInv
<1>3. /\ pc[t] \in {"append", "newHead", "appendFill", "headFill", "pickPort"}
      /\ pc'[t] \in Making \cup {"append", "newHead"}
      /\ loc'[t].tv = loc[t].tv
  <2>1. CASE Append(t)
    <3>1. pc[t] = "append"
      BY <2>1 DEF Append, At
    <3>2. pc'[t] = "appendFill" /\ \E c \in Cells : loc'[t] = [loc[t] EXCEPT !.new = c]
      BY <2>1, AppendEffect DEF TimeInv
    <3> QED
      BY <1>1, <3>1, <3>2 DEF Making, Locals
  <2>2. CASE NewHead(t)
    <3>1. pc[t] = "newHead"
      BY <2>2 DEF NewHead, At
    <3>2. pc'[t] = "headFill" /\ \E c \in Cells : loc'[t] = [loc[t] EXCEPT !.new = c]
      BY <2>2, NewHeadEffect DEF TimeInv
    <3> QED
      BY <1>1, <3>1, <3>2 DEF Making, Locals
  <2>3. CASE AppendFill(t)
    <3>1. pc[t] = "appendFill"
      BY <2>3 DEF AppendFill, At
    <3>2. CASE Crash("segv")
      BY <1>1, <3>1, <3>2 DEF Crash, Making
    <3>3. CASE ~Crash("segv")
      <4>1. PICK c : loc' = [loc EXCEPT ![t].cur = c, ![t].head = FALSE] /\ Goto(t, "pickPort")
        BY <2>3, <3>3, Zenon DEF AppendFill
      <4>2. pc'[t] = "pickPort"
        BY <1>1, <4>1 DEF Goto
      <4>3. loc'[t] = [loc[t] EXCEPT !.cur = c, !.head = FALSE]
        BY <1>1, <4>1
      <4>4. loc'[t].tv = loc[t].tv
        BY <1>1, <4>3 DEF Locals
      <4> QED
        BY <3>1, <4>2, <4>4 DEF Making
    <3> QED
      BY <3>2, <3>3
  <2>4. CASE HeadFill(t)
    BY <1>1, <2>4 DEF HeadFill, At, Goto, Crash, Making, Locals
  <2>5. CASE PickPort(t)
    BY <1>1, <2>5 DEF PickPort, At, Goto, Crash, Making, Locals
  <2> QED
    BY <2>1, <2>2, <2>3, <2>4, <2>5
<1>4. loc[t].tv <= now /\ \A c \in Entries : heap[c].accesstv <= loc[t].tv
  BY <1>1, <1>3 DEF Timely, Stamped
<1>5. Timely(t)'
  BY <1>2, <1>3, <1>4 DEF Timely, EntriesStay, Making, Removing, Parting
<1> QED
  BY <1>2, <1>5

(* The verdict, and the translation: the thread has no more use for times. *)
LEMMA EndTimely ==
  ASSUME OnePacketAtATime, TimeInv, SerialInv', NEW t \in Threads,
         \/ DropOther(t) \/ DropFull(t) \/ DropUnknown(t)
         \/ StartPrint(t) \/ PrintEntry(t) \/ EndPrint(t) \/ Accept(t)
  PROVE  EntriesStay /\ Timely(t)' /\ UNCHANGED <<now, sent>>
<1>1. /\ pc[t] \in {"recv", "find", "print", "printing", "token"}
      /\ pc'[t] \in {"printing", "token", "done"}
      /\ UNCHANGED <<now, sent, natTable, heap, porttb>>
  BY TimeTypes DEF DropOther, DropFull, DropUnknown, StartPrint, PrintEntry, EndPrint, Accept,
                   At, Goto, Verdict
<1>2. Alone(t) /\ Alone(t)'
  BY StepAlone DEF TimeInv, Handle
<1>3. EntriesStay
  BY <1>1, <1>2, QuietStays DEF TimeInv, Making, Parting
<1>4. Timely(t)'
  BY <1>1 DEF Timely, Stamped, Removing, Parting
<1> QED
  BY <1>1, <1>3, <1>4

LEMMA HitTimely ==
  ASSUME TimeInv, SerialInv', NEW t \in Threads, SearchHit(t) \/ FindHit(t)
  PROVE  /\ Timely(t)' /\ Alone(t)'
         /\ \A d \in Entries' : heap'[d].accesstv <= now'
<1> DEFINE c == loc[t].cur
<1>1. /\ c \in Listed /\ Entries = Listed /\ Entries' = Listed
      /\ Alone(t)' /\ pc'[t] = "print" /\ now' = now
      /\ heap' = [heap EXCEPT ![c].accesstv = loc[t].tv]
  BY HitEffect DEF TimeInv
<1>2. heap \in [Cells -> Cell] /\ Listed \subseteq Cells /\ loc[t].tv \in Nat /\ Timely(t)
  BY TimeTypes, SerialTypes DEF TimeInv
<1>3. pc[t] \in {"search", "find"}
  BY DEF SearchHit, FindHit, At
<1>4. loc[t].tv <= now
  BY <1>2, <1>3 DEF Timely, Stamped
<1>5. \A d \in Cells : heap'[d].accesstv = IF d = c THEN loc[t].tv ELSE heap[d].accesstv
  BY <1>1, <1>2 DEF Cell
<1>6. \A d \in Entries' : heap'[d].accesstv <= now'
  BY <1>1, <1>2, <1>4, <1>5 DEF TimeInv
<1>7. Timely(t)'
  BY <1>1 DEF Timely, Stamped, Removing, Parting
<1> QED
  BY <1>1, <1>6, <1>7

LEMMA SetEntryTimely ==
  ASSUME TimeInv, SerialInv', NEW t \in Threads, SetEntry(t)
  PROVE  /\ Timely(t)' /\ Alone(t)'
         /\ \A d \in Entries' : heap'[d].accesstv <= now'
<1> DEFINE c == Made(t)
<1>1. /\ Alone(t)' /\ pc'[t] = "print" /\ c \notin Entries /\ Entries' = Entries \cup {c}
      /\ heap'[c].accesstv = loc[t].tv /\ now' = now
  BY SetEntryEffect DEF TimeInv
<1>2. \A d \in Cells : d # c => heap'[d] = heap[d]
  BY SetEntryEffect DEF TimeInv
<1>3. Entries \subseteq Cells /\ Timely(t) /\ pc[t] = "setEntry"
  BY TimeTypes DEF TimeInv, SetEntry, At
<1>4. loc[t].tv <= now
  BY <1>3 DEF Timely, Stamped
<1> HIDE DEF c
<1>5. \A d \in Entries' : heap'[d].accesstv <= now'
  BY <1>1, <1>2, <1>3, <1>4 DEF TimeInv
<1>6. Timely(t)'
  BY <1>1 DEF Timely, Stamped, Removing, Parting
<1> QED
  BY <1>1, <1>5, <1>6

(* Steps of the clock, and the stuttering ones.                            *)
LEMMA TickStays ==
  ASSUME Tick \/ UNCHANGED vars
  PROVE  /\ EntriesStay /\ UNCHANGED <<natTable, heap, porttb, pktInBuf, pc, loc, sent, crashed>>
         /\ Listed' = Listed
<1>1. UNCHANGED <<natTable, heap, porttb, pktInBuf, pc, loc, sent, crashed>>
  BY DEF vars, Tick
<1>2. Unfilled' = Unfilled /\ Unfinished' = Unfinished /\ Nexts' = Nexts
  BY <1>1 DEF Unfilled, Unfinished, Nexts
<1>3. Listed' = Listed /\ Entries' = Entries
  BY <1>1, <1>2 DEF Listed, Entries
<1> QED
  BY <1>1, <1>3 DEF EntriesStay

LEMMA TimeStep ==
  ASSUME OnePacketAtATime, EnoughHeap
  PROVE  TimeInv /\ [Next]_vars => TimeInv'
<1> SUFFICES ASSUME TimeInv, [Next]_vars PROVE TimeInv'
  OBVIOUS
<1>1. SerialInv' /\ TypeInv'
  BY SerialStep DEF TimeInv, SerialInv
<1>2. CASE Tick \/ UNCHANGED vars
  <2>1. /\ UNCHANGED <<natTable, heap, pc, loc>>
        /\ Entries' = Entries /\ Listed' = Listed
    BY <1>2, TickStays DEF EntriesStay
  <2>2. now \in Nat /\ now' \in Nat /\ now <= now'
    <3>1. now \in Nat
      BY DEF TimeInv, SerialInv, TypeInv, TypeOK
    <3>2. now' = now \/ now' = now + 1
      BY <1>2 DEF Tick, vars
    <3> QED
      BY <3>1, <3>2
  <2>3. \A c \in Entries : heap[c].accesstv <= now' /\ heap[c].accesstv \in Nat
    <3>1. Entries \subseteq Cells /\ heap \in [Cells -> Cell]
      BY DEF Entries, Listed, Reachable, TimeInv, SerialInv, TypeInv, TypeOK
    <3> QED
      BY <2>2, <3>1 DEF Cell, TimeInv
  <2>4. ASSUME NEW u \in Threads PROVE Timely(u)'
    <3>1. Timely(u) /\ loc[u].tv \in Nat /\ loc[u].snap \in Nat
      BY TimeTypes DEF TimeInv
    <3>2. Passed(u)' = Passed(u)
      BY <2>1 DEF Passed
    <3>3. loc[u].tv <= now => loc[u].tv <= now'
      BY <2>2, <3>1
    <3>4. loc[u].snap <= now => loc[u].snap <= now'
      BY <2>2, <3>1
    <3> QED
      BY <2>1, <3>1, <3>2, <3>3, <3>4 DEF Timely
  <2> QED
    BY <1>1, <2>1, <2>3, <2>4 DEF TimeInv
<1>3. ASSUME NEW t \in Threads, Receive(t) \/ Handle(t) PROVE TimeInv'
  <2>1. Alone(t)'
    BY <1>3, StepAlone DEF TimeInv
  <2>2. CASE EntriesStay /\ Timely(t)' /\ UNCHANGED <<now, sent>>
    BY <1>1, <2>1, <2>2, StaysOld, TimeReassemble
  <2>3. CASE \/ Receive(t) \/ AddPktBuf(t) \/ StartExpiry(t) \/ ReadClock(t)
             \/ ScanEntry(t) \/ NextEntry(t) \/ EndScan(t) \/ Unmark(t) \/ Free(t)
    BY <1>1, <2>2, <2>3, FirstStepsTimely, ScanTimely, NextTimely, EndScanTimely,
       PartingTimely
  <2>4. CASE StartOutbound(t) \/ StartInbound(t) \/ SearchOn(t) \/ FindOn(t)
    BY <1>1, <2>2, <2>4, SearchTimely
  <2>5. CASE Append(t) \/ NewHead(t) \/ AppendFill(t) \/ HeadFill(t) \/ PickPort(t)
    BY <1>1, <2>2, <2>5, MakingTimely
  <2>6. CASE \/ DropOther(t) \/ DropFull(t) \/ DropUnknown(t)
             \/ StartPrint(t) \/ PrintEntry(t) \/ EndPrint(t) \/ Accept(t)
    BY <1>1, <2>2, <2>6, EndTimely
  <2>7. CASE Unlink(t) \/ SearchHit(t) \/ FindHit(t) \/ SetEntry(t)
    BY <1>1, <2>7, UnlinkTimely, HitTimely, SetEntryTimely, TimeReassemble
  <2> QED
    BY <1>3, <2>3, <2>4, <2>5, <2>6, <2>7 DEF Handle
<1> QED
  BY <1>2, <1>3 DEF Next

LEMMA WhoMoves ==
  ASSUME TimeInv, [Next]_vars, NEW t \in Threads, pc'[t] # pc[t]
  PROVE  Receive(t) \/ Handle(t)
<1>1. ~(Tick \/ UNCHANGED vars)
  BY TickStays
<1>2. PICK u \in Threads : Receive(u) \/ Handle(u)
  BY <1>1 DEF Next
<1>3. pc \in [Threads -> Labels]
  BY TimeTypes
<1>4. u = t
  BY <1>2, <1>3, OwnMove
<1> QED
  BY <1>2, <1>4

(* "lazy approach to remove expired entries", one packet at a time:        *)
(* whatever remove_expiry() takes out of the table was idle for Expiry;    *)
(* the unsigned difference of the times does not wrap around.              *)
THEOREM OnePacketOnlyIdleRemoved ==
  ASSUME OnePacketAtATime, EnoughHeap
  PROVE  Spec => OnlyIdleRemoved
<1> DEFINE A == \A t \in Threads : pc[t] = "unlink" /\ pc'[t] = "unmark" =>
                  now - heap[loc[t].cur].accesstv >= Expiry
<1>1. TimeInv /\ [Next]_vars => TimeInv'
  BY TimeStep
<1>2. ASSUME TimeInv, [Next]_vars PROVE A
  <2> SUFFICES ASSUME NEW t \in Threads, pc[t] = "unlink", pc'[t] = "unmark"
               PROVE  now - heap[loc[t].cur].accesstv >= Expiry
    OBVIOUS
  <2>1. Receive(t) \/ Handle(t)
    BY <1>2, WhoMoves
  <2>2. Unlink(t)
    BY <2>1 DEF Handle, Receive, DropOther, AddPktBuf, DropFull, StartExpiry, ReadClock,
           ScanEntry, NextEntry, EndScan, Unmark, Free, StartOutbound, SearchHit, SearchOn,
           Append, AppendFill, NewHead, HeadFill, PickPort, SetEntry, StartInbound, FindHit,
           FindOn, DropUnknown, StartPrint, PrintEntry, EndPrint, Accept, At
  <2>3. loc[t].cur \in Entries
    BY <1>2, <2>2, UnlinkEffect DEF TimeInv
  <2>4. Timely(t) /\ now \in Nat /\ Expiry \in Nat /\ loc[t].snap \in Nat /\ loc[t].tv \in Nat
        /\ heap[loc[t].cur].accesstv \in Nat
    BY <1>2, <2>3, TimeTypes DEF TimeInv
  <2>5. /\ loc[t].tv <= loc[t].snap /\ loc[t].snap <= now
        /\ heap[loc[t].cur].accesstv <= loc[t].tv
        /\ LooksExpired(loc[t].snap, heap[loc[t].cur].accesstv)
    BY <2>3, <2>4 DEF Timely, Stamped, Removing
  <2> QED
    BY <2>4, <2>5 DEF LooksExpired
<1>3. TimeInv /\ [Next]_vars => [A]_vars
  BY <1>2
<1> QED
  BY <1>1, <1>3, TimeInit, PTL DEF Spec, OnlyIdleRemoved

(* ... and no packet is translated with an entry that was idle for Expiry  *)
(* when remove_expiry() began: the scan passes every entry of the list.    *)
THEOREM OnePacketNoStaleUse ==
  ASSUME OnePacketAtATime, EnoughHeap
  PROVE  Spec => NoStaleUse
<1> DEFINE A == \A t \in Threads : pc[t] \in {"search", "find"} /\ pc'[t] = "print" =>
                  loc[t].snap - heap[loc[t].cur].accesstv < Expiry
<1>1. TimeInv /\ [Next]_vars => TimeInv'
  BY TimeStep
<1>2. ASSUME TimeInv, [Next]_vars PROVE A
  <2> SUFFICES ASSUME NEW t \in Threads, pc[t] \in {"search", "find"}, pc'[t] = "print"
               PROVE  loc[t].snap - heap[loc[t].cur].accesstv < Expiry
    OBVIOUS
  <2>1. Receive(t) \/ Handle(t)
    BY <1>2, WhoMoves
  <2>2. pc \in [Threads -> Labels]
    BY <1>2, TimeTypes
  <2>3. SearchHit(t) \/ FindHit(t)
    <3>1. SearchHit(t) \/ SearchOn(t) \/ FindHit(t) \/ FindOn(t) \/ DropUnknown(t)
      BY <2>1 DEF Handle, Receive, DropOther, AddPktBuf, DropFull, StartExpiry, ReadClock,
             ScanEntry, NextEntry, EndScan, Unlink, Unmark, Free, StartOutbound, SearchHit,
             SearchOn, Append, AppendFill, NewHead, HeadFill, PickPort, SetEntry, StartInbound,
             FindHit, FindOn, DropUnknown, StartPrint, PrintEntry, EndPrint, Accept, At
    <3> QED
      BY <2>2, <3>1 DEF SearchOn, FindOn, DropUnknown, At, Goto, Verdict
  <2>4. loc[t].cur \in Entries
    BY <1>2, <2>3, HitEffect DEF TimeInv
  <2> QED
    BY <1>2, <2>4 DEF TimeInv, Timely
<1>3. TimeInv /\ [Next]_vars => [A]_vars
  BY <1>2
<1> QED
  BY <1>1, <1>3, TimeInit, PTL DEF Spec, NoStaleUse

-----------------------------------------------------------------------------
(* The list implements PortMap's map, one packet at a time.                *)

IsBinding(b, h, E) ==
  /\ b = [f \in {h[c].itn : c \in E} |-> b[f]]
  /\ \A c \in E : b[h[c].itn] = [port |-> h[c].trans, seen |-> h[c].accesstv]

LEMMA OneBinding ==
  ASSUME NEW h, NEW E, NEW a, NEW b, IsBinding(a, h, E), IsBinding(b, h, E)
  PROVE  a = b
<1> DEFINE D == {h[c].itn : c \in E}
<1>1. a = [f \in D |-> a[f]] /\ b = [f \in D |-> b[f]]
  BY DEF IsBinding
<1>2. ASSUME NEW f \in D PROVE a[f] = b[f]
  <2>1. PICK c \in E : f = h[c].itn
    OBVIOUS
  <2>2. a[h[c].itn] = [port |-> h[c].trans, seen |-> h[c].accesstv]
    BY DEF IsBinding
  <2>3. b[h[c].itn] = [port |-> h[c].trans, seen |-> h[c].accesstv]
    BY DEF IsBinding
  <2> QED
    BY <2>1, <2>2, <2>3
<1> HIDE DEF D
<1>3. [f \in D |-> a[f]] = [f \in D |-> b[f]]
  BY <1>2
<1> QED
  BY <1>1, <1>3

LEMMA BindingNow ==
  ASSUME SerialInv
  PROVE  IsBinding(Binding, heap, Entries)
<1> DEFINE Of(f) == CHOOSE d \in Entries : heap[d].itn = f
           D == {heap[c].itn : c \in Entries}
<1>1. \A c, d \in Entries : heap[c].itn = heap[d].itn => c = d
  BY DEF SerialInv, Agree, Bound
<1>2. Binding = [f \in D |-> [port |-> heap[Of(f)].trans, seen |-> heap[Of(f)].accesstv]]
  BY DEF Binding
<1>3. ASSUME NEW c \in Entries PROVE Of(heap[c].itn) = c
  BY <1>1
<1> HIDE DEF Of
<1>4. \A c \in Entries :
        Binding[heap[c].itn] = [port |-> heap[c].trans, seen |-> heap[c].accesstv]
  BY <1>2, <1>3
<1>5. Binding = [f \in D |-> Binding[f]]
  BY <1>2
<1> QED
  BY <1>4, <1>5 DEF IsBinding

LEMMA BindingNext ==
  ASSUME SerialInv'
  PROVE  IsBinding(Binding', heap', Entries')
<1> DEFINE Of(f) == CHOOSE d \in Entries' : heap'[d].itn = f
           D == {heap'[c].itn : c \in Entries'}
<1>1. \A c, d \in Entries' : heap'[c].itn = heap'[d].itn => c = d
  BY DEF SerialInv, Agree, Bound
<1>2. Binding' = [f \in D |-> [port |-> heap'[Of(f)].trans, seen |-> heap'[Of(f)].accesstv]]
  BY DEF Binding
<1>3. ASSUME NEW c \in Entries' PROVE Of(heap'[c].itn) = c
  BY <1>1
<1> HIDE DEF Of
<1>4. \A c \in Entries' :
        Binding'[heap'[c].itn] = [port |-> heap'[c].trans, seen |-> heap'[c].accesstv]
  BY <1>2, <1>3
<1>5. Binding' = [f \in D |-> Binding'[f]]
  BY <1>2
<1> QED
  BY <1>4, <1>5 DEF IsBinding

LEMMA BindingStays ==
  ASSUME SerialInv, SerialInv', EntriesStay
  PROVE  Binding' = Binding
<1>1. IsBinding(Binding, heap, Entries) /\ IsBinding(Binding', heap', Entries)
  BY BindingNow, BindingNext DEF EntriesStay
<1>2. {heap'[c].itn : c \in Entries} = {heap[c].itn : c \in Entries}
  BY DEF EntriesStay
<1>3. IsBinding(Binding', heap, Entries)
  BY <1>1, <1>2 DEF IsBinding, EntriesStay
<1> QED
  BY <1>1, <1>3, OneBinding

(* remove_expiry() gives up the binding of one flow.                       *)
LEMMA UnlinkExpires ==
  ASSUME TimeInv, SerialInv', NEW t \in Threads, Unlink(t)
  PROVE  \E f \in Flows : Map!Expire(f)
<1> DEFINE c == loc[t].cur
           f == heap[c].itn
<1>1. /\ c \in Entries /\ Entries' = Entries \ {c} /\ UNCHANGED <<now, sent>>
      /\ Entries \subseteq Cells
  BY UnlinkEffect, TimeTypes DEF TimeInv
<1>2. \A d \in Entries' : /\ heap'[d].itn = heap[d].itn
                          /\ heap'[d].trans = heap[d].trans
                          /\ heap'[d].accesstv = heap[d].accesstv
  <2>1. \A d \in Cells : /\ heap'[d].itn = heap[d].itn
                         /\ heap'[d].trans = heap[d].trans
                         /\ heap'[d].accesstv = heap[d].accesstv
    BY UnlinkEffect DEF TimeInv
  <2> QED
    BY <1>1, <2>1
<1>3. Agree(heap, porttb, Held, Bound) /\ Entries \subseteq Bound
  BY DEF TimeInv, SerialInv, Bound
<1>4. f \in Flows /\ \A d \in Entries : d # c => heap[d].itn # f
  BY <1>1, <1>3 DEF Agree
<1>5. IsBinding(Binding, heap, Entries) /\ IsBinding(Binding', heap', Entries')
  BY BindingNow, BindingNext DEF TimeInv
<1> DEFINE D == {heap[d].itn : d \in Entries}
<1>6. DOMAIN Binding = D /\ f \in D
      /\ Binding[f] = [port |-> heap[c].trans, seen |-> heap[c].accesstv]
  BY <1>1, <1>5 DEF IsBinding
<1> DEFINE G == [g \in D \ {f} |-> Binding[g]]
<1>7. {heap'[d].itn : d \in Entries'} = D \ {f}
  BY <1>1, <1>2, <1>4
<1>8. IsBinding(G, heap', Entries')
  <2>1. \A d \in Entries' : G[heap'[d].itn] = [port |-> heap'[d].trans, seen |-> heap'[d].accesstv]
    BY <1>1, <1>2, <1>4, <1>5, <1>7, ZenonT(60) DEF IsBinding
  <2>2. G = [g \in D \ {f} |-> G[g]]
    OBVIOUS
  <2> HIDE DEF G, D, f
  <2> QED
    BY <1>7, <2>1, <2>2 DEF IsBinding
<1>9. Binding' = G
  BY <1>5, <1>8, OneBinding
<1>10. now - Binding[f].seen >= Expiry
  <2>1. Timely(t) /\ now \in Nat /\ Expiry \in Nat /\ loc[t].snap \in Nat /\ loc[t].tv \in Nat
        /\ heap[c].accesstv \in Nat /\ pc[t] = "unlink"
    BY <1>1, TimeTypes DEF TimeInv, Unlink, At
  <2>2. /\ loc[t].tv <= loc[t].snap /\ loc[t].snap <= now
        /\ heap[c].accesstv <= loc[t].tv
        /\ LooksExpired(loc[t].snap, heap[c].accesstv)
    BY <1>1, <2>1 DEF Timely, Stamped, Removing
  <2>3. Binding[f].seen = heap[c].accesstv
    BY <1>6
  <2> QED
    BY <2>1, <2>2, <2>3 DEF LooksExpired
<1>11. Binding' = [g \in DOMAIN Binding \ {f} |-> Binding[g]]
  BY <1>6, <1>9
<1>12. f \in DOMAIN Binding
  BY <1>6
<1> HIDE DEF f
<1>13. Map!Expire(f)
  BY <1>1, <1>10, <1>11, <1>12 DEF Map!Expire
<1> QED
  BY <1>4, <1>13 DEF f

(* A hit uses the binding of the entry's flow, and refreshes it.           *)
LEMMA HitUses ==
  ASSUME TimeInv, SerialInv', NEW t \in Threads, SearchHit(t) \/ FindHit(t)
  PROVE  \E f \in Flows, dir \in {"out", "in"} : Map!Use(f, dir)
<1> DEFINE c == loc[t].cur
           f == heap[c].itn
           stamp == loc[t].tv
           dir == loc[t].pkt.dir
<1>1. /\ c \in Entries /\ Entries' = Entries /\ now' = now
      /\ heap' = [heap EXCEPT ![c].accesstv = stamp]
      /\ Entries \subseteq Cells /\ heap \in [Cells -> Cell]
  BY HitEffect, TimeTypes, SerialTypes DEF TimeInv
<1>2. \A d \in Entries : /\ heap'[d].itn = heap[d].itn
                         /\ heap'[d].trans = heap[d].trans
                         /\ heap'[d].accesstv = IF d = c THEN stamp ELSE heap[d].accesstv
  BY <1>1 DEF Cell
<1>3. Agree(heap, porttb, Held, Bound) /\ Entries \subseteq Bound
  BY DEF TimeInv, SerialInv, Bound
<1>4. f \in Flows /\ \A d \in Entries : d # c => heap[d].itn # f
  BY <1>1, <1>3 DEF Agree
<1>5. IsBinding(Binding, heap, Entries) /\ IsBinding(Binding', heap', Entries)
  BY <1>1, BindingNow, BindingNext DEF TimeInv
<1> DEFINE D == {heap[d].itn : d \in Entries}
<1>6. Binding = [g \in D |-> Binding[g]] /\ f \in D
      /\ Binding[f] = [port |-> heap[c].trans, seen |-> heap[c].accesstv]
  BY <1>1, <1>5 DEF IsBinding
<1>6a. Binding[f].port = heap[c].trans /\ Binding[f].seen = heap[c].accesstv
  <2> HIDE DEF D, f, c
  <2> QED
    BY <1>6
<1> DEFINE G == [Binding EXCEPT ![f].seen = stamp]
<1>7. {heap'[d].itn : d \in Entries} = D
  BY <1>2
<1>8. /\ DOMAIN Binding = D
      /\ G = [g \in D |-> IF g = f THEN [port |-> heap[c].trans, seen |-> stamp] ELSE Binding[g]]
  <2> HIDE DEF D, f
  <2>1. DOMAIN Binding = D
    BY <1>6
  <2>2. [Binding[f] EXCEPT !.seen = stamp] = [port |-> heap[c].trans, seen |-> stamp]
    BY <1>6
  <2> QED
    BY <1>6, <2>1, <2>2
<1>9. IsBinding(G, heap', Entries)
  <2>1. ASSUME NEW d \in Entries
        PROVE  G[heap'[d].itn] = [port |-> heap'[d].trans, seen |-> heap'[d].accesstv]
    <3>1. heap[d].itn \in D
      OBVIOUS
    <3>2. CASE d = c
      BY <1>2, <1>6, <1>8, <3>2, ZenonT(60)
    <3>3. CASE d # c
      <4>1. G[heap[d].itn] = Binding[heap[d].itn]
        BY <1>4, <1>8, <3>1, <3>3, ZenonT(60)
      <4> QED
        BY <1>2, <1>5, <3>3, <4>1, ZenonT(60) DEF IsBinding
    <3> QED
      BY <3>2, <3>3
  <2>2. G = [g \in D |-> G[g]]
    BY <1>8, ZenonT(60)
  <2> HIDE DEF G, D, f
  <2> QED
    BY <1>7, <2>1, <2>2 DEF IsBinding
<1>10. Binding' = G
  BY <1>5, <1>9, OneBinding
<1>11. stamp \in Binding[f].seen..now
  <2>1. Timely(t) /\ pc[t] \in {"search", "find"}
    BY DEF TimeInv, SearchHit, FindHit, At
  <2>2. stamp <= now /\ heap[c].accesstv <= stamp
    BY <1>1, <2>1 DEF Timely, Stamped
  <2>3. now \in Nat /\ stamp \in Nat /\ heap[c].accesstv \in Nat
    BY <1>1, TimeTypes
  <2> HIDE DEF f, c, stamp
  <2> QED
    BY <1>6a, <2>2, <2>3
<1>12. sent' = [dir |-> dir, flow |-> f, port |-> Binding[f].port, at |-> stamp]
  <2>1. sent' = [dir |-> dir, flow |-> f, port |-> heap[c].trans, at |-> stamp]
    BY DEF SearchHit, FindHit, Translate
  <2> HIDE DEF f, c, dir, stamp
  <2> QED
    BY <1>6a, <2>1
<1>13. dir \in {"out", "in"}
  BY SerialTypes DEF TimeInv, SearchHit, FindHit, At, Fits
<1>14. f \in DOMAIN Binding
  BY <1>6
<1> HIDE DEF f, dir, stamp
<1>15. Map!Use(f, dir)
  BY <1>1, <1>10, <1>11, <1>12, <1>14 DEF Map!Use
<1>16. f \in Flows
  BY <1>4 DEF f
<1> QED
  BY <1>13, <1>15, <1>16

(* A completed entry binds a flow that was not bound to a free port.       *)
LEMMA SetEntryBinds ==
  ASSUME TimeInv, SerialInv', NEW t \in Threads, SetEntry(t)
  PROVE  \E f \in Flows, p \in Ports : Map!Bind(f, p)
<1> DEFINE c == Made(t)
           f == loc[t].pkt.flow
           p == loc[t].port
           stamp == loc[t].tv
<1>1. /\ c \notin Entries /\ Entries' = Entries \cup {c} /\ now' = now
      /\ p \in Ports /\ ~porttb[p] /\ f \in Flows
      /\ heap'[c].itn = f /\ heap'[c].trans = p /\ heap'[c].accesstv = stamp
      /\ NewTo(t) /\ Translate(t, f, p)
  BY SetEntryEffect DEF TimeInv
<1>2. \A d \in Cells : d # c => heap'[d] = heap[d]
  BY SetEntryEffect DEF TimeInv
<1>3. Entries \subseteq Cells
  BY TimeTypes
<1> HIDE DEF c
<1>4. \A d \in Entries : heap'[d] = heap[d]
  BY <1>1, <1>2, <1>3
<1>5. Agree(heap, porttb, Held, Bound) /\ Entries \subseteq Bound
  BY DEF TimeInv, SerialInv, Bound
<1>6. /\ \A d \in Entries : heap[d].itn # f
      /\ \A d \in Entries : heap[d].trans # p
  BY <1>1, <1>5 DEF NewTo, Agree
<1>7. IsBinding(Binding, heap, Entries) /\ IsBinding(Binding', heap', Entries')
  BY BindingNow, BindingNext DEF TimeInv
<1> DEFINE D == {heap[d].itn : d \in Entries}
<1>8. DOMAIN Binding = D /\ f \notin D
  BY <1>6, <1>7 DEF IsBinding
<1> DEFINE G == [g \in D \cup {f} |-> IF g = f THEN [port |-> p, seen |-> stamp] ELSE Binding[g]]
<1>9. {heap'[d].itn : d \in Entries'} = D \cup {f}
  BY <1>1, <1>4
<1>10. IsBinding(G, heap', Entries')
  <2>1. ASSUME NEW d \in Entries'
        PROVE  G[heap'[d].itn] = [port |-> heap'[d].trans, seen |-> heap'[d].accesstv]
    <3>1. CASE d = c
      BY <1>1, <3>1
    <3>2. CASE d # c
      <4>1. d \in Entries /\ heap[d].itn \in D /\ heap[d].itn # f
        BY <1>1, <1>6, <3>2
      <4>2. G[heap[d].itn] = Binding[heap[d].itn]
        BY <4>1
      <4> QED
        BY <1>4, <1>7, <4>1, <4>2 DEF IsBinding
    <3> QED
      BY <3>1, <3>2
  <2>2. G = [g \in D \cup {f} |-> G[g]]
    OBVIOUS
  <2> HIDE DEF G, D, f
  <2> QED
    BY <1>9, <2>1, <2>2 DEF IsBinding
<1>11. Binding' = G
  BY <1>7, <1>10, OneBinding
<1>12. p \notin {Binding[g].port : g \in DOMAIN Binding}
  <2> SUFFICES ASSUME NEW g \in D, Binding[g].port = p PROVE FALSE
    BY <1>8
  <2>1. PICK d \in Entries : g = heap[d].itn
    OBVIOUS
  <2>2. Binding[g] = [port |-> heap[d].trans, seen |-> heap[d].accesstv]
    BY <1>7, <2>1 DEF IsBinding
  <2> QED
    BY <1>6, <2>2
<1>13. stamp \in 0..now
  <2>1. Timely(t) /\ pc[t] = "setEntry" /\ now \in Nat /\ stamp \in Nat
    BY TimeTypes DEF TimeInv, SetEntry, At
  <2> QED
    BY <2>1 DEF Timely, Stamped
<1>14. sent' = [dir |-> "out", flow |-> f, port |-> p, at |-> stamp]
  <2>1. loc[t].pkt.dir = "out"
    BY SerialTypes DEF TimeInv, SetEntry, At, Fits
  <2> QED
    BY <1>1, <2>1 DEF Translate
<1>15. Binding' = [g \in DOMAIN Binding \cup {f} |->
                     IF g = f THEN [port |-> p, seen |-> stamp] ELSE Binding[g]]
  BY <1>8, <1>11
<1>16. f \notin DOMAIN Binding
  BY <1>8
<1> HIDE DEF f, p, stamp
<1>17. Map!Bind(f, p)
  BY <1>1, <1>12, <1>13, <1>14, <1>15, <1>16 DEF Map!Bind, Map!PortsInUse
<1> QED
  BY <1>1, <1>17

(* nat.c implements PortMap, with one packet in Callback() at a time: seen *)
(* from outside it is a map from flows to ports, in which a flow keeps its *)
(* port until it was idle for Expiry, and no two flows hold one port.      *)
THEOREM OnePacketImplementsPortMap ==
  ASSUME OnePacketAtATime, EnoughHeap
  PROVE  Spec => MapSpec
<1>1. TimeInv /\ [Next]_vars => TimeInv'
  BY TimeStep
<1>2. Init => Map!Init
  <2> SUFFICES ASSUME Init PROVE Map!Init
    OBVIOUS
  <2>1. SerialInv
    BY SerialInit
  <2>2. Entries = {}
    <3>1. \A c \in Cells : ~heap[c].live
      BY DEF Init
    <3>2. Listed \subseteq Cells /\ \A c \in Cells : heap[c].live <=> c \in Held
      BY <2>1 DEF SerialInv, Agree, Listed, Reachable
    <3> QED
      BY <3>1, <3>2 DEF Entries, Held
  <2>3. Binding = [f \in {} |-> [port |-> 0, seen |-> 0]]
    BY <2>2 DEF Binding
  <2> QED
    BY <2>3 DEF Init, Map!Init
<1>3. ASSUME TimeInv, [Next]_vars PROVE Map!Next \/ UNCHANGED <<now, Binding, sent>>
  <2>1. TimeInv'
    BY <1>1, <1>3
  <2>2. SerialInv /\ SerialInv' /\ TypeInv'
    BY <1>3, <2>1 DEF TimeInv, SerialInv
  <2>3. CASE EntriesStay /\ UNCHANGED <<now, sent>>
    BY <2>2, <2>3, BindingStays
  <2>4. CASE Tick
    <3>1. Binding' = Binding /\ sent' = sent /\ now' = now + 1
      BY <2>2, <2>4, TickStays, BindingStays DEF Tick
    <3> QED
      BY <3>1 DEF Map!Next, Map!Tick
  <2>5. CASE UNCHANGED vars
    BY <2>3, <2>5, TickStays DEF vars
  <2>6. ASSUME NEW t \in Threads, Receive(t) \/ Handle(t)
        PROVE  Map!Next \/ UNCHANGED <<now, Binding, sent>>
    <3>1. CASE \/ Receive(t) \/ AddPktBuf(t) \/ StartExpiry(t) \/ ReadClock(t)
               \/ ScanEntry(t) \/ NextEntry(t) \/ EndScan(t) \/ Unmark(t) \/ Free(t)
      BY <1>3, <2>2, <2>3, <3>1, FirstStepsTimely, ScanTimely, NextTimely, EndScanTimely,
         PartingTimely
    <3>2. CASE StartOutbound(t) \/ StartInbound(t) \/ SearchOn(t) \/ FindOn(t)
      BY <1>3, <2>2, <2>3, <3>2, SearchTimely
    <3>3. CASE Append(t) \/ NewHead(t) \/ AppendFill(t) \/ HeadFill(t) \/ PickPort(t)
      BY <1>3, <2>2, <2>3, <3>3, MakingTimely
    <3>4. CASE \/ DropOther(t) \/ DropFull(t) \/ DropUnknown(t)
               \/ StartPrint(t) \/ PrintEntry(t) \/ EndPrint(t) \/ Accept(t)
      BY <1>3, <2>2, <2>3, <3>4, EndTimely
    <3>5. CASE Unlink(t)
      BY <1>3, <2>2, <3>5, UnlinkExpires DEF Map!Next
    <3>6. CASE SearchHit(t) \/ FindHit(t)
      BY <1>3, <2>2, <3>6, HitUses DEF Map!Next
    <3>7. CASE SetEntry(t)
      BY <1>3, <2>2, <3>7, SetEntryBinds DEF Map!Next
    <3> QED
      BY <2>6, <3>1, <3>2, <3>3, <3>4, <3>5, <3>6, <3>7 DEF Handle
  <2> QED
    BY <1>3, <2>4, <2>5, <2>6 DEF Next
<1>4. TimeInv /\ [Next]_vars => [Map!Next]_<<now, Binding, sent>>
  BY <1>3
<1> QED
  BY <1>1, <1>2, <1>4, TimeInit, PTL DEF Spec, MapSpec, Map!Spec
=============================================================================

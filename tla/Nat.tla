--------------------------------- MODULE Nat ---------------------------------
(***************************************************************************)
(* The multi-threaded NAT of src/asgn3/nat.c.                              *)
(*                                                                         *)
(* main() starts a thread for each packet; the thread runs Callback():     *)
(* take a place in the packet buffer, remove the expired entries of the    *)
(* translation table, translate the packet, take a token, give the place   *)
(* back and give the verdict.  pkt_in_buf is only touched under buf_mutex, *)
(* and so is the unlinking of an entry, but the list is walked, searched,  *)
(* extended and printed, and the port marks are read and set, without any  *)
(* lock.                                                                   *)
(*                                                                         *)
(* A step is one access to shared memory, but for these, which are taken   *)
(* as one: the fields of an entry that one statement, or the statements    *)
(* that make an entry, read or write; the reading of an entry's next       *)
(* pointer in a search with that of its addresses, and in the unlinking    *)
(* with the store that bypasses it; the reading of the port marks up to    *)
(* the first that is free; and a port's mark with the entry that gets, or  *)
(* names, the port; and a packet's time stamp with its place in the buffer.*)
(* get_token() is modelled in TokenBucket; here it is a step that returns. *)
(*                                                                         *)
(* Heap cells model malloc(): a NAT_TB is 40 bytes, and the allocator      *)
(* keeps its own data in the first 16 bytes of a free chunk, which hold    *)
(* the addresses and ports.  So a freed cell, and a cell that malloc()     *)
(* just returned, have junk there and the old accesstv and next.           *)
(***************************************************************************)
EXTENDS Integers, FiniteSets

CONSTANTS
  Threads,          \* main() starts one thread for each packet
  Flows,            \* inner (address, port) pairs
  NumPorts,         \* size of porttb (2000 in the code)
  Cells,            \* heap chunks of the size of a NAT_TB
  MAX_PKT_IN_BUF,
  Expiry,           \* seconds after which an idle entry is removed (10)
  MaxInFlight,      \* assumption on the traffic: packets handled at a time
  MaxTime,          \* bound: the clock stops here
  NULL, Junk

ASSUME PortAssumption == NumPorts \in Nat
ASSUME BufferAssumption == MAX_PKT_IN_BUF \in Nat
ASSUME TimeAssumption == Expiry \in Nat \ {0} /\ MaxTime \in Nat
ASSUME ThreadsAssumption == IsFiniteSet(Threads) /\ MaxInFlight \in Nat

Ports == 0..(NumPorts - 1)

ASSUME NullAssumption == NULL \notin Cells /\ Junk \notin Flows \cup Ports

VARIABLES
  now,        \* gettimeofday(), in seconds
  natTable,   \* nat_table
  heap,       \* the NAT_TB in each chunk, and whether the chunk is allocated
  porttb,     \* TRUE where porttb[i] == 'y'
  pktInBuf,   \* pkt_in_buf
  pc,         \* where each thread is
  loc,        \* the local variables of each thread
  sent,       \* history: the translation of the last packet let through
  crashed     \* "no", "segv" or "noport": whether the process still runs

vars == <<now, natTable, heap, porttb, pktInBuf, pc, loc, sent, crashed>>

(* The program counters inside the stretch that holds a place in the buffer*)
InBuffer ==
  {"expire", "clock", "scan", "next", "unlink", "unmark", "free",
   "lookup", "search", "append", "appendFill", "newHead", "headFill",
   "pickPort", "setEntry", "find", "print", "printing", "token"}

Labels == {"idle", "recv", "done"} \cup InBuffer

(* A packet: of an inner flow, to an outer port, or not UDP at all.        *)
Packets ==
  [dir : {"out"}, flow : Flows] \cup [dir : {"in"}, port : Ports] \cup [dir : {"other"}]

NoPacket == [dir |-> "none"]

Locals ==
  [pkt  : Packets \cup {NoPacket},
   tv   : Nat,                     \* the time stamp of the packet
   snap : Nat,                     \* `now` of remove_expiry
   cur  : Cells \cup {NULL},       \* `table`
   prev : Cells \cup {NULL},
   new  : Cells \cup {NULL},       \* what malloc() returned, or `befree`
   head : BOOLEAN,                 \* the new entry is reached as nat_table
   port : Ports \cup {Junk}]       \* the i of the port scan

Cell ==
  [live : BOOLEAN, itn : Flows \cup {Junk}, trans : Ports \cup {Junk},
   accesstv : Nat, next : Cells \cup {NULL}]

TypeOK ==
  /\ now \in Nat
  /\ natTable \in Cells \cup {NULL}
  /\ heap \in [Cells -> Cell]
  /\ porttb \in [Ports -> BOOLEAN]
  /\ pktInBuf \in Int
  /\ pc \in [Threads -> Labels]
  /\ loc \in [Threads -> Locals]
  /\ crashed \in {"no", "segv", "noport"}

NoLocals ==
  [pkt |-> NoPacket, tv |-> 0, snap |-> 0, cur |-> NULL, prev |-> NULL, new |-> NULL,
   head |-> FALSE, port |-> Junk]

Init ==
  /\ now = 0
  /\ natTable = NULL
  /\ heap = [c \in Cells |-> [live |-> FALSE, itn |-> Junk, trans |-> Junk,
                              accesstv |-> 0, next |-> NULL]]
  /\ porttb = [p \in Ports |-> FALSE]
  /\ pktInBuf = 0
  /\ pc = [t \in Threads |-> "idle"]
  /\ loc = [t \in Threads |-> NoLocals]
  /\ sent = [dir |-> "none"]
  /\ crashed = "no"

-----------------------------------------------------------------------------

InSection == {t \in Threads : pc[t] \in InBuffer}

(* buf_mutex is held from one step to the next only while an entry leaves. *)
Locked == \E t \in Threads : pc[t] \in {"unmark", "free"}

At(t, label) == crashed = "no" /\ pc[t] = label

Goto(t, label) == pc' = [pc EXCEPT ![t] = label]

Crash(why) ==
  /\ crashed' = why
  /\ UNCHANGED <<now, natTable, heap, porttb, pktInBuf, pc, loc, sent>>

(* The verdict: the thread is done.                                        *)
Verdict(t) ==
  /\ pc' = [pc EXCEPT ![t] = "done"]
  /\ loc' = [loc EXCEPT ![t] = NoLocals]

(* main(): recv() and pthread_create(); the kernel stamped the packet.     *)
Receive(t) ==
  /\ At(t, "idle")
  /\ Cardinality({u \in Threads : pc[u] \notin {"idle", "done"}}) < MaxInFlight
  /\ \E pkt \in Packets :
       loc' = [loc EXCEPT ![t] = [NoLocals EXCEPT !.pkt = pkt, !.tv = now]]
  /\ Goto(t, "recv")
  /\ UNCHANGED <<now, natTable, heap, porttb, pktInBuf, sent, crashed>>

(* Callback(): a packet that is not UDP is dropped before add_pkt_buf().   *)
DropOther(t) ==
  /\ At(t, "recv")
  /\ loc[t].pkt.dir = "other"
  /\ Verdict(t)
  /\ UNCHANGED <<now, natTable, heap, porttb, pktInBuf, sent, crashed>>

(* Mutant: the limit is checked one packet too late.                       *)
AddPktBufTooMany(t) ==
  /\ At(t, "recv")
  /\ loc[t].pkt.dir # "other"
  /\ ~Locked
  /\ pktInBuf <= MAX_PKT_IN_BUF
  /\ pktInBuf' = pktInBuf + 1
  /\ UNCHANGED <<now, natTable, heap, porttb, loc, sent, crashed>>
  /\ Goto(t, "expire")

(* add_pkt_buf(), and the time stamp: of the kernel, or read here.         *)
AddPktBuf(t) ==
  /\ At(t, "recv")
  /\ loc[t].pkt.dir # "other"
  /\ ~Locked
  /\ pktInBuf < MAX_PKT_IN_BUF
  /\ pktInBuf' = pktInBuf + 1
  /\ \E stamp \in {loc[t].tv, now} : loc' = [loc EXCEPT ![t].tv = stamp]
  /\ Goto(t, "expire")
  /\ UNCHANGED <<now, natTable, heap, porttb, sent, crashed>>

DropFull(t) ==
  /\ At(t, "recv")
  /\ loc[t].pkt.dir # "other"
  /\ ~Locked
  /\ pktInBuf >= MAX_PKT_IN_BUF
  /\ Verdict(t)
  /\ UNCHANGED <<now, natTable, heap, porttb, pktInBuf, sent, crashed>>

-----------------------------------------------------------------------------

(* remove_expiry(): the head of the list and the clock are read once.      *)
StartExpiry(t) ==
  /\ At(t, "expire")
  /\ loc' = [loc EXCEPT ![t].cur = natTable, ![t].prev = NULL]
  /\ Goto(t, "clock")
  /\ UNCHANGED <<now, natTable, heap, porttb, pktInBuf, sent, crashed>>

ReadClock(t) ==
  /\ At(t, "clock")
  /\ loc' = [loc EXCEPT ![t].snap = now]
  /\ Goto(t, "scan")
  /\ UNCHANGED <<now, natTable, heap, porttb, pktInBuf, sent, crashed>>

(* Mutant: an entry expires a second early.                                *)
LooksExpiredEarly(snap, seen) == seen > snap \/ snap - seen + 1 >= Expiry

(* now - pkttime >= 10000 in unsigned long: a time stamp newer than the    *)
(* clock reading wraps around to a huge age.                               *)
LooksExpired(snap, seen) == seen > snap \/ snap - seen >= Expiry

(* The time stamp of an entry, and then, if it is to stay, its next        *)
(* pointer.                                                                *)
ScanEntry(t) ==
  /\ At(t, "scan")
  /\ loc[t].cur # NULL
  /\ Goto(t, IF LooksExpired(loc[t].snap, heap[loc[t].cur].accesstv)
             THEN "unlink" ELSE "next")
  /\ UNCHANGED <<now, natTable, heap, porttb, pktInBuf, loc, sent, crashed>>

(* Mutant: prev moves on and table does not.                               *)
NextEntryStuck(t) ==
  /\ At(t, "next")
  /\ loc' = [loc EXCEPT ![t].prev = loc[t].cur]
  /\ Goto(t, "scan")
  /\ UNCHANGED <<now, natTable, heap, porttb, pktInBuf, sent, crashed>>

NextEntry(t) ==
  /\ At(t, "next")
  /\ loc' = [loc EXCEPT ![t].prev = loc[t].cur, ![t].cur = heap[loc[t].cur].next]
  /\ Goto(t, "scan")
  /\ UNCHANGED <<now, natTable, heap, porttb, pktInBuf, sent, crashed>>

EndScan(t) ==
  /\ At(t, "scan")
  /\ loc[t].cur = NULL
  /\ Goto(t, "lookup")
  /\ UNCHANGED <<now, natTable, heap, porttb, pktInBuf, loc, sent, crashed>>

(* The section under buf_mutex: bypass the entry, unmark its port, free it.*)
Unlink(t) ==
  /\ At(t, "unlink")
  /\ ~Locked
  /\ LET after == heap[loc[t].cur].next IN
       /\ IF loc[t].prev = NULL
            THEN natTable' = after /\ UNCHANGED heap
            ELSE heap' = [heap EXCEPT ![loc[t].prev].next = after] /\ UNCHANGED natTable
       /\ loc' = [loc EXCEPT ![t].new = loc[t].cur, ![t].cur = after]
  /\ Goto(t, "unmark")
  /\ UNCHANGED <<now, porttb, pktInBuf, sent, crashed>>

(* What the walk goes on with: the pointer just stored, or, if it is read  *)
(* again, what another thread stored there since.                          *)
AfterUnlink(t) ==
  {loc[t].cur, IF loc[t].prev = NULL THEN natTable ELSE heap[loc[t].prev].next}

(* Mutant: the port stays marked.                                          *)
UnmarkNone(t) ==
  /\ At(t, "unmark")
  /\ \E after \in AfterUnlink(t) : loc' = [loc EXCEPT ![t].cur = after]
  /\ Goto(t, "free")
  /\ UNCHANGED <<now, natTable, heap, porttb, pktInBuf, sent, crashed>>

(* An entry whose port is junk makes porttb be written out of bounds,      *)
(* which may go unnoticed.                                                 *)
Unmark(t) ==
  /\ At(t, "unmark")
  /\ LET port == heap[loc[t].new].trans IN
       \/ /\ \E after \in AfterUnlink(t) : loc' = [loc EXCEPT ![t].cur = after]
          /\ porttb' = IF port = Junk THEN porttb ELSE [porttb EXCEPT ![port] = FALSE]
          /\ Goto(t, "free")
          /\ UNCHANGED <<now, natTable, heap, pktInBuf, sent, crashed>>
       \/ port = Junk /\ Crash("segv")

Freed(e) == [e EXCEPT !.live = FALSE, !.itn = Junk, !.trans = Junk]

(* Mutant: the walk goes on one entry too far.                             *)
FreeSkipsNext(t) ==
  /\ At(t, "free")
  /\ heap' = [heap EXCEPT ![loc[t].new] = Freed(heap[loc[t].new])]
  /\ loc' = [loc EXCEPT
               ![t].new = NULL,
               ![t].prev = IF loc[t].cur = NULL THEN loc[t].prev ELSE loc[t].cur,
               ![t].cur = IF loc[t].cur = NULL THEN NULL ELSE heap[loc[t].cur].next]
  /\ Goto(t, "scan")
  /\ UNCHANGED <<now, natTable, porttb, pktInBuf, sent, crashed>>

(* An entry that is free already makes free() abort.                       *)
Free(t) ==
  /\ At(t, "free")
  /\ LET c == loc[t].new IN
       \/ /\ heap[c].live
          /\ heap' = [heap EXCEPT ![c] = Freed(heap[c])]
          /\ loc' = [loc EXCEPT ![t].new = NULL]
          /\ Goto(t, "scan")
          /\ UNCHANGED <<now, natTable, porttb, pktInBuf, sent, crashed>>
       \/ ~heap[c].live /\ Crash("segv")

-----------------------------------------------------------------------------

(* The head of the list is read again, by search_entry or search_dst_port. *)
StartOutbound(t) ==
  /\ At(t, "lookup")
  /\ loc[t].pkt.dir = "out"
  /\ loc' = [loc EXCEPT ![t].cur = natTable, ![t].prev = NULL]
  /\ Goto(t, IF natTable = NULL THEN "newHead" ELSE "search")
  /\ UNCHANGED <<now, natTable, heap, porttb, pktInBuf, sent, crashed>>

StartInbound(t) ==
  /\ At(t, "lookup")
  /\ loc[t].pkt.dir = "in"
  /\ loc' = [loc EXCEPT ![t].cur = natTable, ![t].prev = NULL]
  /\ Goto(t, "find")
  /\ UNCHANGED <<now, natTable, heap, porttb, pktInBuf, sent, crashed>>

(* The packet is rewritten with the ports of the entry and goes on, to     *)
(* printNAT(); the locals are not used any more.                           *)
Translate(t, flow, port) ==
  /\ sent' = [dir |-> loc[t].pkt.dir, flow |-> flow, port |-> port, at |-> loc[t].tv]
  /\ Goto(t, "print")
  /\ loc' = [loc EXCEPT ![t] = NoLocals]

(* Mutant: a hit does not refresh the entry.                               *)
SearchHitNoRefresh(t) ==
  /\ At(t, "search")
  /\ heap[loc[t].cur].itn = loc[t].pkt.flow
  /\ Translate(t, heap[loc[t].cur].itn, heap[loc[t].cur].trans)
  /\ UNCHANGED <<now, natTable, heap, porttb, pktInBuf, crashed>>

(* search_entry() on one entry: it is the flow's, the last, or neither.    *)
SearchHit(t) ==
  /\ At(t, "search")
  /\ LET e == heap[loc[t].cur] IN
       /\ e.itn = loc[t].pkt.flow
       /\ heap' = [heap EXCEPT ![loc[t].cur].accesstv = loc[t].tv]
       /\ Translate(t, e.itn, e.trans)
  /\ UNCHANGED <<now, natTable, porttb, pktInBuf, crashed>>

SearchOn(t) ==
  /\ At(t, "search")
  /\ LET e == heap[loc[t].cur] IN
       /\ e.itn # loc[t].pkt.flow
       /\ IF e.next = NULL
            THEN Goto(t, "append") /\ UNCHANGED loc
            ELSE loc' = [loc EXCEPT ![t].cur = e.next] /\ UNCHANGED pc
  /\ UNCHANGED <<now, natTable, heap, porttb, pktInBuf, sent, crashed>>

FreeCells == {c \in Cells : ~heap[c].live}

(* table->next = malloc(): the entry is in the list before it is filled.   *)
(* The result of malloc() is not checked.                                  *)
Append(t) ==
  /\ At(t, "append")
  /\ \/ \E c \in FreeCells :
          /\ heap' = [heap EXCEPT ![c].live = TRUE, ![loc[t].cur].next = c]
          /\ loc' = [loc EXCEPT ![t].new = c]
          /\ Goto(t, "appendFill")
          /\ UNCHANGED <<now, natTable, porttb, pktInBuf, sent, crashed>>
     \/ FreeCells = {} /\ Crash("segv")

(* What the code then calls table->next, or nat_table, is the new cell or  *)
(* what another thread stored there since: the accesses race, and the      *)
(* compiler may keep the pointer in a register or read it again.           *)
AppendFill(t) ==
  /\ At(t, "appendFill")
  /\ \E c \in {heap[loc[t].cur].next, loc[t].new} :
       \/ /\ c # NULL
          /\ heap' = [heap EXCEPT ![c].next = NULL, ![c].itn = loc[t].pkt.flow]
          /\ loc' = [loc EXCEPT ![t].cur = c, ![t].head = FALSE]
          /\ Goto(t, "pickPort")
          /\ UNCHANGED <<now, natTable, porttb, pktInBuf, sent, crashed>>
       \/ c = NULL /\ Crash("segv")

(* nat_table = malloc().                                                   *)
NewHead(t) ==
  /\ At(t, "newHead")
  /\ \/ \E c \in FreeCells :
          /\ heap' = [heap EXCEPT ![c].live = TRUE]
          /\ natTable' = c
          /\ loc' = [loc EXCEPT ![t].new = c]
          /\ Goto(t, "headFill")
          /\ UNCHANGED <<now, porttb, pktInBuf, sent, crashed>>
     \/ FreeCells = {} /\ Crash("segv")

HeadFill(t) ==
  /\ At(t, "headFill")
  /\ \E c \in {natTable, loc[t].new} :
       \/ /\ c # NULL
          /\ heap' = [heap EXCEPT ![c].next = NULL, ![c].itn = loc[t].pkt.flow]
          /\ loc' = [loc EXCEPT ![t].head = TRUE]
          /\ Goto(t, "pickPort")
          /\ UNCHANGED <<now, natTable, porttb, pktInBuf, sent, crashed>>
       \/ c = NULL /\ Crash("segv")

(* Mutant: the scan runs past the end of the table and is believed.        *)
PickPortUnchecked(t) ==
  /\ At(t, "pickPort")
  /\ \E i \in 0..NumPorts :
       /\ \A j \in Ports : j < i => porttb[j]
       /\ i \in Ports => ~porttb[i]
       /\ loc' = [loc EXCEPT ![t].port = i]
  /\ Goto(t, "setEntry")
  /\ UNCHANGED <<now, natTable, heap, porttb, pktInBuf, sent, crashed>>

(* The scan for the first port that is not marked.                         *)
PickPort(t) ==
  /\ At(t, "pickPort")
  /\ \/ \E i \in Ports :
          /\ ~porttb[i]
          /\ \A j \in Ports : j < i => porttb[j]
          /\ loc' = [loc EXCEPT ![t].port = i]
          /\ Goto(t, "setEntry")
          /\ UNCHANGED <<now, natTable, heap, porttb, pktInBuf, sent, crashed>>
     \/ (\A j \in Ports : porttb[j]) /\ Crash("noport")

(* Mark the port and complete the entry, as above; the scan is over, but   *)
(* the port may have been marked by another thread meanwhile.              *)
SetEntry(t) ==
  /\ At(t, "setEntry")
  /\ LET i == loc[t].port IN
       \E c \in IF loc[t].head THEN {natTable, loc[t].new} ELSE {loc[t].cur} :
         \/ /\ c # NULL
            /\ porttb' = [porttb EXCEPT ![i] = TRUE]
            /\ heap' = [heap EXCEPT ![c].trans = i, ![c].accesstv = loc[t].tv]
            /\ Translate(t, loc[t].pkt.flow, i)
            /\ UNCHANGED <<now, natTable, pktInBuf, crashed>>
         \/ c = NULL /\ Crash("segv")

(* search_dst_port() on one entry.                                         *)
FindHit(t) ==
  /\ At(t, "find")
  /\ loc[t].cur # NULL
  /\ LET e == heap[loc[t].cur] IN
       /\ e.trans = loc[t].pkt.port
       /\ heap' = [heap EXCEPT ![loc[t].cur].accesstv = loc[t].tv]
       /\ Translate(t, e.itn, e.trans)
  /\ UNCHANGED <<now, natTable, porttb, pktInBuf, crashed>>

FindOn(t) ==
  /\ At(t, "find")
  /\ loc[t].cur # NULL
  /\ LET e == heap[loc[t].cur] IN
       /\ e.trans # loc[t].pkt.port
       /\ loc' = [loc EXCEPT ![t].cur = e.next]
  /\ UNCHANGED <<now, natTable, heap, porttb, pktInBuf, pc, sent, crashed>>

(* "dst_port not in table, drop the pkt": rm_pkt_buf() and the verdict.    *)
DropUnknown(t) ==
  /\ At(t, "find")
  /\ loc[t].cur = NULL
  /\ ~Locked
  /\ pktInBuf' = pktInBuf - 1
  /\ Verdict(t)
  /\ UNCHANGED <<now, natTable, heap, porttb, sent, crashed>>

(* printNAT() walks the list once more.                                    *)
StartPrint(t) ==
  /\ At(t, "print")
  /\ loc' = [loc EXCEPT ![t].cur = natTable]
  /\ Goto(t, "printing")
  /\ UNCHANGED <<now, natTable, heap, porttb, pktInBuf, sent, crashed>>

PrintEntry(t) ==
  /\ At(t, "printing")
  /\ loc[t].cur # NULL
  /\ loc' = [loc EXCEPT ![t].cur = heap[loc[t].cur].next]
  /\ UNCHANGED <<now, natTable, heap, porttb, pktInBuf, pc, sent, crashed>>

EndPrint(t) ==
  /\ At(t, "printing")
  /\ loc[t].cur = NULL
  /\ Goto(t, "token")
  /\ UNCHANGED <<now, natTable, heap, porttb, pktInBuf, loc, sent, crashed>>

(* get_token() returned: rm_pkt_buf() and the verdict ACCEPT.              *)
Accept(t) ==
  /\ At(t, "token")
  /\ ~Locked
  /\ pktInBuf' = pktInBuf - 1
  /\ Verdict(t)
  /\ UNCHANGED <<now, natTable, heap, porttb, sent, crashed>>

Tick ==
  /\ crashed = "no"
  /\ now < MaxTime
  /\ now' = now + 1
  /\ UNCHANGED <<natTable, heap, porttb, pktInBuf, pc, loc, sent, crashed>>

(* What the thread of a packet does after it was created.                  *)
Handle(t) ==
  \/ DropOther(t) \/ AddPktBuf(t) \/ DropFull(t)
  \/ StartExpiry(t) \/ ReadClock(t) \/ ScanEntry(t) \/ NextEntry(t) \/ EndScan(t)
  \/ Unlink(t) \/ Unmark(t) \/ Free(t)
  \/ StartOutbound(t) \/ SearchHit(t) \/ SearchOn(t)
  \/ Append(t) \/ AppendFill(t) \/ NewHead(t) \/ HeadFill(t)
  \/ PickPort(t) \/ SetEntry(t)
  \/ StartInbound(t) \/ FindHit(t) \/ FindOn(t) \/ DropUnknown(t)
  \/ StartPrint(t) \/ PrintEntry(t) \/ EndPrint(t) \/ Accept(t)

Next == Tick \/ \E t \in Threads : Receive(t) \/ Handle(t)

Spec == Init /\ [][Next]_vars

(* The scheduler runs every thread that was created.                       *)
FairSpec == Spec /\ \A t \in Threads : WF_vars(Handle(t))

-----------------------------------------------------------------------------

(* add_pkt_buf() and rm_pkt_buf() pair up on every path of Callback(): the *)
(* counter is the number of packets in the buffer, never above its limit.  *)
BufferCount ==
  /\ pktInBuf = Cardinality(InSection)
  /\ pktInBuf <= MAX_PKT_IN_BUF

(* Every packet main() hands to a thread gets its verdict, as long as the  *)
(* process lives.                                                          *)
EveryPacketAnswered ==
  \A t \in Threads : pc[t] = "recv" ~> pc[t] = "done" \/ crashed # "no"

-----------------------------------------------------------------------------

(* Entries that are in the list already but not filled: their next pointer *)
(* is not theirs yet.                                                      *)
Unfilled ==
  {heap[loc[t].cur].next : t \in {u \in Threads : pc[u] = "appendFill"}}
    \cup {natTable : t \in {u \in Threads : pc[u] = "headFill"}}

(* The chunks that can be reached from `head`: the smallest set that the   *)
(* next pointers do not lead out of.  Those of `open` chunks do not count. *)
Reachable(head, next, open) ==
  {c \in Cells :
     \A S \in SUBSET Cells :
       /\ head \in S \cup {NULL}
       /\ \A d \in S \ open : next[d] \in S \cup {NULL}
       => c \in S}

Nexts == [c \in Cells |-> heap[c].next]

(* The entries that can be reached from nat_table.                         *)
Listed == Reachable(natTable, Nexts, Unfilled)

(* Entries in the list that some thread has not completed.                 *)
Unfinished ==
  Unfilled \cup
  {IF loc[t].head THEN natTable ELSE loc[t].cur :
     t \in {u \in Threads : pc[u] \in {"pickPort", "setEntry"}}}

Entries == Listed \ Unfinished

(* Entries that were taken out of the list and are not freed yet, or whose *)
(* ports are still marked.                                                 *)
Leaving(labels) == {loc[t].new : t \in {u \in Threads : pc[u] \in labels}}

(* The list, the heap and the port marks agree: a chunk is allocated       *)
(* exactly when it is in the list, or about to be freed; a port is marked  *)
(* exactly when an entry holds it, or one that leaves; and no two entries  *)
(* are of the same flow or hold the same port.                             *)
TableSound ==
  LET entries == Entries IN
  /\ {c \in Cells : heap[c].live} = Listed \cup Leaving({"unmark", "free"})
  /\ {p \in Ports : porttb[p]} = {heap[c].trans : c \in entries \cup Leaving({"unmark"})}
  /\ \A c, d \in entries : c # d =>
       heap[c].itn # heap[d].itn /\ heap[c].trans # heap[d].trans
  /\ crashed # "segv"

(* The list as a map from flows to ports.                                  *)
Binding ==
  LET entries == Entries IN
  [f \in {heap[c].itn : c \in entries} |->
     LET c == CHOOSE d \in entries : heap[d].itn = f
     IN  [port |-> heap[c].trans, seen |-> heap[c].accesstv]]

Map == INSTANCE PortMap WITH clock <- now, bind <- Binding

MapSpec == Map!Spec

(* "lazy approach to remove expired entries": whatever remove_expiry takes *)
(* out of the table was idle for Expiry.                                   *)
OnlyIdleRemoved ==
  [][\A t \in Threads : pc[t] = "unlink" /\ pc'[t] = "unmark" =>
       now - heap[loc[t].cur].accesstv >= Expiry]_vars

(* ... and nothing older than that, by the clock at the beginning of       *)
(* remove_expiry, is used for a translation.                               *)
NoStaleUse ==
  [][\A t \in Threads : pc[t] \in {"search", "find"} /\ pc'[t] = "print" =>
       loc[t].snap - heap[loc[t].cur].accesstv < Expiry]_vars

(* "not found, new a entry": when search_entry() hands out a new port, the *)
(* entry that takes replies to that port back to the flow is in the table. *)
NewEntryListed ==
  [][\A t \in Threads : pc[t] = "setEntry" /\ pc'[t] = "print" =>
       \E c \in Listed' :
         heap'[c].itn = loc[t].pkt.flow /\ heap'[c].trans = loc[t].port]_vars
=============================================================================

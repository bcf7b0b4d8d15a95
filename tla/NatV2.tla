-------------------------------- MODULE NatV2 --------------------------------
(***************************************************************************)
(* The single-threaded NAT of src/asgn3/v2/nat.c.                          *)
(*                                                                         *)
(* main() runs Callback() to its end before it receives the next packet,   *)
(* so a packet is one step.  The translation table is a list in the order  *)
(* of insertion.  A port is an index of porttb; when every port is marked  *)
(* the scan runs off the end and its index, NumPorts, is used as a port.   *)
(*                                                                         *)
(* The verdict NF_ACCEPT carries no payload, so the rewritten headers do   *)
(* not leave the process, and the thread that refills the bucket serves    *)
(* nobody: neither is modelled.  What remains is the table and its ports.  *)
(***************************************************************************)
EXTENDS Integers, Sequences, FiniteSets

CONSTANTS
  Flows,      \* inner (address, port) pairs
  NumPorts,   \* size of porttb (2000 in the code)
  Expiry,     \* seconds after which an idle entry is removed (10)
  MaxDelay,   \* bound: how long a packet waits between its stamp and recv()
  MaxTime     \* bound: the clock stops here

ASSUME PortAssumption == NumPorts \in Nat
ASSUME TimeAssumption ==
  Expiry \in Nat \ {0} /\ MaxDelay \in Nat /\ MaxTime \in Nat

Ports == 0..(NumPorts - 1)

VARIABLES
  now,        \* gettimeofday(), in seconds
  natTable,   \* the list nat_table points to
  porttb      \* TRUE where porttb[i] == 'y'

vars == <<now, natTable, porttb>>

Entry == [flow : Flows, port : 0..NumPorts, accesstv : Nat]

TypeOK ==
  /\ now \in Nat
  /\ natTable \in Seq(Entry)
  /\ porttb \in [Ports -> BOOLEAN]

Init ==
  /\ now = 0
  /\ natTable = << >>
  /\ porttb = [p \in Ports |-> FALSE]

-----------------------------------------------------------------------------

Expired(e) == now - e.accesstv >= Expiry

Staying == {i \in 1..Len(natTable) : ~Expired(natTable[i])}

(* The table without its expired entries: the m-th that stays is the one   *)
(* up to which m stay.                                                     *)
Place(m) == CHOOSE i \in Staying : Cardinality({j \in Staying : j <= i}) = m

Kept == [m \in 1..Cardinality(Staying) |-> natTable[Place(m)]]

(* Mutants: the port of an expired entry is never released; the port of    *)
(* the entry after it is.                                                  *)
ReleasedNone == {}

ReleasedNext ==
  {natTable[i + 1].port : i \in {j \in 1..Len(natTable) - 1 : Expired(natTable[j])}}

(* remove_expiry() tests `table`, which is the entry after the expired one *)
(* by then, and not `befree`: the port of the last entry stays marked, and *)
(* its memory allocated.                                                   *)
Released ==
  {natTable[i].port : i \in {j \in 1..Len(natTable) - 1 : Expired(natTable[j])}}

MarksAfterExpiry == [p \in Ports |-> porttb[p] /\ p \notin Released]

(* Mutant: the scan ends one index too late.                               *)
FirstFreeLate ==
  IF \A j \in Ports : MarksAfterExpiry[j] THEN NumPorts + 1
  ELSE CHOOSE i \in Ports :
         ~MarksAfterExpiry[i] /\ \A j \in Ports : j < i => MarksAfterExpiry[j]

(* The first index that is not marked, or NumPorts: nobody checks.         *)
FirstFree ==
  CHOOSE i \in 0..NumPorts :
    /\ \A j \in Ports : j < i => MarksAfterExpiry[j]
    /\ i \in Ports => ~MarksAfterExpiry[i]

(* The kernel's time stamp, or gettimeofday() where it has none.           *)
Stamps == {now - delay : delay \in 0..MaxDelay} \cap Nat

(* remove_expiry(), then search_entry() finds the entry of the flow ...    *)
OutboundKnown(flow) ==
  \E stamp \in Stamps, i \in 1..Len(Kept) :
    /\ Kept[i].flow = flow
    /\ \A j \in 1..(i - 1) : Kept[j].flow # flow
    /\ natTable' = [Kept EXCEPT ![i].accesstv = stamp]
    /\ porttb' = MarksAfterExpiry
    /\ UNCHANGED now

(* ... or appends one, with the first free port.                           *)
OutboundNew(flow) ==
  \E stamp \in Stamps :
    /\ \A i \in 1..Len(Kept) : Kept[i].flow # flow
    /\ natTable' = Append(Kept, [flow |-> flow, port |-> FirstFree, accesstv |-> stamp])
    /\ porttb' = [p \in Ports |-> MarksAfterExpiry[p] \/ p = FirstFree]
    /\ UNCHANGED now

(* remove_expiry(), then search_dst_port() finds the entry of the port ... *)
InboundKnown(port) ==
  \E stamp \in Stamps, i \in 1..Len(Kept) :
    /\ Kept[i].port = port
    /\ \A j \in 1..(i - 1) : Kept[j].port # port
    /\ natTable' = [Kept EXCEPT ![i].accesstv = stamp]
    /\ porttb' = MarksAfterExpiry
    /\ UNCHANGED now

(* ... or none: "dst_port not in table, drop the pkt".                     *)
InboundUnknown(port) ==
  /\ \A i \in 1..Len(Kept) : Kept[i].port # port
  /\ natTable' = Kept
  /\ porttb' = MarksAfterExpiry
  /\ UNCHANGED now

Tick ==
  /\ now < MaxTime
  /\ now' = now + 1
  /\ UNCHANGED <<natTable, porttb>>

Next ==
  \/ \E flow \in Flows : OutboundKnown(flow) \/ OutboundNew(flow)
  \/ \E port \in 0..NumPorts : InboundKnown(port) \/ InboundUnknown(port)
  \/ Tick

Spec == Init /\ [][Next]_vars

-----------------------------------------------------------------------------

PortsHeld == {natTable[i].port : i \in 1..Len(natTable)}

Marked == {p \in Ports : porttb[p]}

(* Ports that are marked for an entry that is gone.                        *)
Leaked == Marked \ PortsHeld

(* The table and the marks of search_entry() and remove_expiry() fit, in   *)
(* spite of the leak: a flow has one entry, the port of an entry is marked,*)
(* and only the port behind the end of porttb is ever given out twice.     *)
TableSound ==
  /\ PortsHeld \cap Ports \subseteq Marked
  /\ \A i, j \in 1..Len(natTable) : i # j =>
       /\ natTable[i].flow # natTable[j].flow
       /\ natTable[i].port = natTable[j].port => natTable[i].port = NumPorts

(* A port that remove_expiry() failed to release is lost for good, and a   *)
(* single Callback(), however many entries it expires, loses at most one.  *)
OneLeakPerCallback ==
  [][Leaked \subseteq Leaked' /\ Cardinality(Leaked' \ Leaked) <= 1]_vars
=============================================================================

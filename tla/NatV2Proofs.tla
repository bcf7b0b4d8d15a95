---------------------------- MODULE NatV2Proofs ----------------------------
(* What holds of the single-threaded NAT of src/asgn3/v2/nat.c, for every  *)
(* number of flows and ports, every expiry and every delay of a packet.    *)
EXTENDS NatV2, TLAPS, FiniteSetTheorems

-----------------------------------------------------------------------------
(* Sets of naturals.                                                       *)

Rank(S, i) == Cardinality({j \in S : j <= i})

(* The elements of a finite set of numbers are ranked from 1 without gaps. *)
LEMMA Ranks ==
  ASSUME NEW S \in SUBSET Nat, IsFiniteSet(S)
  PROVE  [i \in S |-> Rank(S, i)] \in Bijection(S, 1..Cardinality(S))
<1> DEFINE Upto(i) == {j \in S : j <= i}
           r == [i \in S |-> Rank(S, i)]
<1>1. ASSUME NEW i \in S
      PROVE  /\ IsFiniteSet(Upto(i)) /\ Cardinality(Upto(i)) \in 1..Cardinality(S)
             /\ Rank(S, i) = Cardinality(Upto(i))
  <2>1. /\ IsFiniteSet(Upto(i)) /\ Cardinality(Upto(i)) <= Cardinality(S)
    BY FS_Subset
  <2>2. Cardinality(Upto(i)) \in Nat /\ Cardinality(S) \in Nat
    BY <2>1, FS_CardinalityType
  <2>3. i \in Upto(i)
    OBVIOUS
  <2>4. Cardinality(Upto(i)) # 0
    <3> HIDE DEF Upto
    <3> QED
      BY <2>1, <2>3, FS_EmptySet
  <2> QED
    BY <2>1, <2>2, <2>4 DEF Rank
<1>2. ASSUME NEW i \in S, NEW j \in S, i < j PROVE Rank(S, i) # Rank(S, j)
  <2>1. Upto(i) \in SUBSET Upto(j) /\ j \in Upto(j) /\ j \notin Upto(i)
    <3>1. \A k \in S : k <= i => k <= j
      BY <1>2
    <3>2. ~(j <= i) /\ j <= j
      BY <1>2
    <3>3. Upto(i) \in SUBSET Upto(j)
      BY <3>1
    <3>4. j \in Upto(j) /\ j \notin Upto(i)
      BY <3>2
    <3> QED
      BY <3>3, <3>4
  <2> HIDE DEF Upto
  <2>2. Cardinality(Upto(i)) # Cardinality(Upto(j))
    BY <1>1, <2>1, FS_Subset
  <2> QED
    BY <1>1, <2>2
<1> HIDE DEF Upto
<1>3. r \in [S -> 1..Cardinality(S)]
  BY <1>1
<1>4. \A i, j \in S : i # j => r[i] # r[j]
  <2> SUFFICES ASSUME NEW i \in S, NEW j \in S, i # j PROVE r[i] # r[j]
    OBVIOUS
  <2>1. i < j \/ j < i
    OBVIOUS
  <2>2. r[i] = Rank(S, i) /\ r[j] = Rank(S, j)
    OBVIOUS
  <2> QED
    BY <1>2, <2>1, <2>2
<1> HIDE DEF r
<1>5. r \in Injection(S, 1..Cardinality(S))
  BY <1>3, <1>4 DEF Injection, IsInjective
<1>6. IsFiniteSet(1..Cardinality(S)) /\ Cardinality(1..Cardinality(S)) = Cardinality(S)
  <2>1. Cardinality(S) \in Nat
    BY FS_CardinalityType
  <2>2. IsFiniteSet(1..Cardinality(S))
        /\ Cardinality(1..Cardinality(S)) =
             IF 1 > Cardinality(S) THEN 0 ELSE Cardinality(S) - 1 + 1
    BY <2>1, FS_Interval
  <2> QED
    BY <2>1, <2>2
<1>7. r \in Surjection(S, 1..Cardinality(S))
  BY <1>5, <1>6, FS_Injection
<1>8. r \in Bijection(S, 1..Cardinality(S))
  BY <1>5, <1>7 DEF Bijection
<1> QED
  BY <1>8 DEF r

(* Every set of numbers has a least one.                                   *)
LEMMA Least ==
  ASSUME NEW S \in SUBSET Nat, S # {}
  PROVE  \E m \in S : \A k \in S : m <= k
<1>1. PICK n \in S : TRUE
  OBVIOUS
<1> DEFINE T == {k \in S : k <= n}
<1>2. IsFiniteSet(T) /\ T \in SUBSET Nat
  BY FS_BoundedSetOfNaturals
<1>3. [i \in T |-> Rank(T, i)] \in Bijection(T, 1..Cardinality(T))
  BY <1>2, Ranks
<1>4. Cardinality(T) \in Nat /\ Cardinality(T) # 0
  <2>1. n \in T
    OBVIOUS
  <2> HIDE DEF T
  <2> QED
    BY <1>2, <2>1, FS_EmptySet, FS_CardinalityType
<1> HIDE DEF T
<1>5. PICK m \in T : Rank(T, m) = 1
  BY <1>3, <1>4 DEF Bijection, Surjection
<1>6. ASSUME NEW k \in T PROVE m <= k
  <2>1. {j \in T : j <= m} = {m}
    <3>1. IsFiniteSet({j \in T : j <= m})
      BY <1>2, FS_Subset
    <3>2. PICK x : {j \in T : j <= m} = {x}
      BY <1>5, <3>1, FS_Singleton DEF Rank
    <3>3. m \in {j \in T : j <= m}
      BY <1>2
    <3> QED
      BY <3>2, <3>3
  <2>2. k <= m => k = m
    BY <2>1
  <2> QED
    BY <1>2, <2>2
<1> QED
  BY <1>1, <1>6 DEF T

-----------------------------------------------------------------------------
(* The table without its expired entries.                                  *)

LEMMA StayingTypes ==
  ASSUME TypeOK
  PROVE  Staying \in SUBSET (1..Len(natTable)) /\ IsFiniteSet(Staying)
         /\ Cardinality(Staying) \in Nat /\ Len(natTable) \in Nat
         /\ \A i \in 1..Len(natTable) : natTable[i] \in Entry
<1>1. Len(natTable) \in Nat /\ \A i \in 1..Len(natTable) : natTable[i] \in Entry
  BY DEF TypeOK
<1>2. Staying \in SUBSET (1..Len(natTable))
  BY DEF Staying
<1>3. IsFiniteSet(1..Len(natTable))
  BY <1>1, FS_Interval
<1> QED
  BY <1>1, <1>2, <1>3, FS_Subset, FS_CardinalityType

(* Each entry that stays has one place in the new table.                   *)
LEMMA Places ==
  ASSUME TypeOK
  PROVE  /\ \A m \in 1..Cardinality(Staying) : Place(m) \in Staying
         /\ \A m, n \in 1..Cardinality(Staying) : m # n => Place(m) # Place(n)
         /\ \A i \in Staying : \E m \in 1..Cardinality(Staying) : Place(m) = i
<1> DEFINE r == [i \in Staying |-> Rank(Staying, i)]
           C == 1..Cardinality(Staying)
<1>1. r \in Bijection(Staying, C)
  <2>1. Staying \in SUBSET Nat /\ IsFiniteSet(Staying)
    BY StayingTypes
  <2> QED
    BY <2>1, Ranks
<1>2. \A m : Place(m) = CHOOSE i \in Staying : Rank(Staying, i) = m
  BY DEF Place, Rank
<1>3. \A i \in Staying : r[i] = Rank(Staying, i)
  OBVIOUS
<1> HIDE DEF r
<1>4. \A i \in Staying : r[i] \in C
  BY <1>1 DEF Bijection, Injection
<1> HIDE DEF C
<1>5. \A m \in C : \E i \in Staying : r[i] = m
  BY <1>1 DEF Bijection, Surjection
<1>6. \A i, j \in Staying : r[i] = r[j] => i = j
  BY <1>1 DEF Bijection, Injection, IsInjective
<1>7. \A m \in C : Place(m) \in Staying /\ r[Place(m)] = m
  BY <1>2, <1>3, <1>5
<1>8. \A i \in Staying : Place(r[i]) = i
  BY <1>4, <1>6, <1>7
<1> QED
  BY <1>4, <1>7, <1>8 DEF C

LEMMA KeptEntries ==
  ASSUME TypeOK
  PROVE  /\ Kept \in Seq(Entry) /\ Len(Kept) \in Nat
         /\ \A m \in 1..Len(Kept) :
              Place(m) \in Staying /\ Kept[m] = natTable[Place(m)] /\ Kept[m] \in Entry
         /\ \A m, n \in 1..Len(Kept) : m # n => Place(m) # Place(n)
         /\ \A i \in Staying : \E m \in 1..Len(Kept) : Kept[m] = natTable[i]
<1>1. Cardinality(Staying) \in Nat
  BY StayingTypes
<1>2. /\ \A m \in 1..Cardinality(Staying) : Place(m) \in Staying
      /\ \A m, n \in 1..Cardinality(Staying) : m # n => Place(m) # Place(n)
      /\ \A i \in Staying : \E m \in 1..Cardinality(Staying) : Place(m) = i
  BY Places
<1>3. \A m \in 1..Cardinality(Staying) : natTable[Place(m)] \in Entry
  BY <1>2, StayingTypes
<1>4. Kept \in [1..Cardinality(Staying) -> Entry]
      /\ \A m \in 1..Cardinality(Staying) : Kept[m] = natTable[Place(m)]
  BY <1>3 DEF Kept
<1>5. Kept \in Seq(Entry) /\ Len(Kept) = Cardinality(Staying)
  BY <1>1, <1>4
<1> QED
  BY <1>1, <1>2, <1>3, <1>4, <1>5

LEMMA FirstFreeFacts ==
  FirstFree \in 0..NumPorts /\ (FirstFree \in Ports => ~MarksAfterExpiry[FirstFree])
<1> DEFINE S == {p \in Ports : ~MarksAfterExpiry[p]} \cup {NumPorts}
<1>1. S \in SUBSET Nat /\ S # {} /\ S \subseteq 0..NumPorts
  BY PortAssumption DEF Ports
<1>2. PICK m \in S : \A k \in S : m <= k
  <2> HIDE DEF S
  <2> QED
    BY <1>1, Least
<1>3. \A j \in Ports : j < m => MarksAfterExpiry[j]
  <2> SUFFICES ASSUME NEW j \in Ports, j < m PROVE MarksAfterExpiry[j]
    OBVIOUS
  <2>1. j \notin S
    BY <1>1, <1>2 DEF Ports
  <2> QED
    BY <2>1
<1>4. NumPorts \notin Ports
  BY PortAssumption DEF Ports
<1>5. m \in 0..NumPorts /\ (m \in Ports => ~MarksAfterExpiry[m])
  BY <1>1, <1>2, <1>4
<1> QED
  BY <1>3, <1>5 DEF FirstFree

-----------------------------------------------------------------------------
(* The invariant.                                                          *)

TableInv == TypeOK /\ TableSound

(* Expiry alone leaves the table sound: a port that is released is that of *)
(* an expired entry, and of no other.                                      *)
LEMMA KeptSound ==
  ASSUME TableInv
  PROVE  /\ \A m \in 1..Len(Kept) : Kept[m].port \in Ports => MarksAfterExpiry[Kept[m].port]
         /\ \A m, n \in 1..Len(Kept) : m # n =>
              /\ Kept[m].flow # Kept[n].flow
              /\ Kept[m].port = Kept[n].port => Kept[m].port = NumPorts
<1>1. Len(natTable) \in Nat /\ \A i \in Staying : i \in 1..Len(natTable) /\ ~Expired(natTable[i])
  BY StayingTypes DEF Staying, TableInv
<1>2. \A m \in 1..Len(Kept) : Place(m) \in Staying /\ Kept[m] = natTable[Place(m)]
  BY KeptEntries DEF TableInv
<1>3. \A m, n \in 1..Len(Kept) : m # n => Place(m) # Place(n)
  BY KeptEntries DEF TableInv
<1>4. \A i, j \in 1..Len(natTable) : i # j =>
        /\ natTable[i].flow # natTable[j].flow
        /\ natTable[i].port = natTable[j].port => natTable[i].port = NumPorts
  BY DEF TableInv, TableSound
<1>5. ASSUME NEW m \in 1..Len(Kept), Kept[m].port \in Ports
      PROVE  MarksAfterExpiry[Kept[m].port]
  <2> DEFINE p == Kept[m].port
  <2>1. Place(m) \in 1..Len(natTable) /\ p = natTable[Place(m)].port
        /\ ~Expired(natTable[Place(m)])
    BY <1>1, <1>2
  <2>2. porttb[p]
    BY <1>5, <2>1 DEF TableInv, TableSound, PortsHeld, Marked
  <2>3. p # NumPorts
    BY <1>5, PortAssumption DEF Ports
  <2>4. p \notin Released
    <3>1. SUFFICES ASSUME p \in Released PROVE FALSE
      OBVIOUS
    <3>2. PICK j \in 1..Len(natTable) - 1 : Expired(natTable[j]) /\ natTable[j].port = p
      BY <3>1 DEF Released
    <3>3. j \in 1..Len(natTable)
      BY <1>1
    <3>4. j = Place(m)
      BY <1>4, <2>1, <2>3, <3>2, <3>3
    <3> QED
      BY <2>1, <3>2, <3>4
  <2> QED
    BY <1>5, <2>2, <2>4 DEF MarksAfterExpiry
<1> QED
  BY <1>1, <1>2, <1>3, <1>4, <1>5

LEMMA StampedEntries ==
  ASSUME TableInv, NEW i \in 1..Len(Kept), NEW stamp \in Stamps,
         natTable' = [Kept EXCEPT ![i].accesstv = stamp]
  PROVE  /\ natTable' \in Seq(Entry) /\ Len(natTable') = Len(Kept)
         /\ \A m \in 1..Len(Kept) : /\ natTable'[m].flow = Kept[m].flow
                                    /\ natTable'[m].port = Kept[m].port
<1>1. Kept \in Seq(Entry) /\ \A m \in 1..Len(Kept) : Kept[m] \in Entry
  BY KeptEntries DEF TableInv
<1>2. stamp \in Nat
  BY DEF Stamps
<1> DEFINE e == [Kept[i] EXCEPT !.accesstv = stamp]
<1>3. e \in Entry /\ e.flow = Kept[i].flow /\ e.port = Kept[i].port
  BY <1>1, <1>2 DEF Entry
<1>4. natTable' = [Kept EXCEPT ![i] = e]
  OBVIOUS
<1> HIDE DEF e
<1>5. natTable' \in Seq(Entry) /\ Len(natTable') = Len(Kept)
  BY <1>1, <1>3, <1>4
<1>6. \A m \in 1..Len(Kept) : natTable'[m] = IF m = i THEN e ELSE Kept[m]
  BY <1>1, <1>4
<1> QED
  BY <1>3, <1>5, <1>6

(* What a packet leaves: the table that expiry leaves, with a new stamp in *)
(* one of its entries or a new entry behind it.                            *)
SameEntries ==
  /\ natTable' \in Seq(Entry) /\ Len(natTable') = Len(Kept)
  /\ \A m \in 1..Len(Kept) : /\ natTable'[m].flow = Kept[m].flow
                             /\ natTable'[m].port = Kept[m].port
  /\ porttb' = MarksAfterExpiry

OneMoreEntry ==
  \E e \in Entry :
    /\ e.port = FirstFree /\ \A m \in 1..Len(Kept) : Kept[m].flow # e.flow
    /\ natTable' = Append(Kept, e)
    /\ porttb' = [p \in Ports |-> MarksAfterExpiry[p] \/ p = FirstFree]

LEMMA PacketSteps ==
  ASSUME TableInv, [Next]_vars
  PROVE  \/ now' \in {now, now + 1} /\ UNCHANGED <<natTable, porttb>>
         \/ UNCHANGED now /\ SameEntries
         \/ UNCHANGED now /\ OneMoreEntry
<1>1. CASE \E flow \in Flows : OutboundKnown(flow)
  <2>1. PICK stamp \in Stamps, i \in 1..Len(Kept) :
          /\ natTable' = [Kept EXCEPT ![i].accesstv = stamp]
          /\ porttb' = MarksAfterExpiry /\ UNCHANGED now
    BY <1>1 DEF OutboundKnown
  <2> QED
    BY <2>1, StampedEntries DEF SameEntries
<1>2. CASE \E flow \in Flows : OutboundNew(flow)
  <2>1. PICK flow \in Flows, stamp \in Stamps :
          /\ \A i \in 1..Len(Kept) : Kept[i].flow # flow
          /\ natTable' = Append(Kept, [flow |-> flow, port |-> FirstFree, accesstv |-> stamp])
          /\ porttb' = [p \in Ports |-> MarksAfterExpiry[p] \/ p = FirstFree]
          /\ UNCHANGED now
    BY <1>2 DEF OutboundNew
  <2> DEFINE e == [flow |-> flow, port |-> FirstFree, accesstv |-> stamp]
  <2>2. e \in Entry
    BY FirstFreeFacts DEF Entry, Stamps
  <2>3. e.port = FirstFree /\ e.flow = flow
    OBVIOUS
  <2> HIDE DEF e
  <2>4. natTable' = Append(Kept, e)
    BY <2>1 DEF e
  <2> QED
    BY <2>1, <2>2, <2>3, <2>4 DEF OneMoreEntry
<1>3. CASE \E port \in 0..NumPorts : InboundKnown(port)
  <2>1. PICK stamp \in Stamps, i \in 1..Len(Kept) :
          /\ natTable' = [Kept EXCEPT ![i].accesstv = stamp]
          /\ porttb' = MarksAfterExpiry /\ UNCHANGED now
    BY <1>3 DEF InboundKnown
  <2> QED
    BY <2>1, StampedEntries DEF SameEntries
<1>4. CASE \E port \in 0..NumPorts : InboundUnknown(port)
  BY <1>4, KeptEntries DEF InboundUnknown, SameEntries, TableInv
<1>5. CASE Tick \/ UNCHANGED vars
  BY <1>5 DEF Tick, vars
<1> QED
  BY <1>1, <1>2, <1>3, <1>4, <1>5 DEF Next

LEMMA TableStep == TableInv /\ [Next]_vars => TableInv'
<1> SUFFICES ASSUME TableInv, [Next]_vars PROVE TableInv'
  OBVIOUS
<1>1. now \in Nat /\ now' \in Nat
  BY PacketSteps DEF TableInv, TypeOK
<1>2. MarksAfterExpiry \in [Ports -> BOOLEAN]
  <2>1. \A p \in Ports : porttb[p] \in BOOLEAN
    BY DEF TableInv, TypeOK
  <2> QED
    BY <2>1 DEF MarksAfterExpiry
<1>3. CASE UNCHANGED <<natTable, porttb>>
  BY <1>1, <1>3 DEF TableInv, TypeOK, TableSound, PortsHeld, Marked
<1>4. CASE SameEntries
  <2>1. TypeOK'
    BY <1>1, <1>2, <1>4 DEF TypeOK, SameEntries
  <2>2. Len(natTable') = Len(Kept) /\ porttb' = MarksAfterExpiry
        /\ \A m \in 1..Len(Kept) : /\ natTable'[m].flow = Kept[m].flow
                                   /\ natTable'[m].port = Kept[m].port
    BY <1>4 DEF SameEntries
  <2>3. \A m \in 1..Len(natTable') : natTable'[m].port \in Ports => porttb'[natTable'[m].port]
    BY <2>2, KeptSound
  <2>4. (PortsHeld \cap Ports \subseteq Marked)'
    BY <2>3 DEF PortsHeld, Marked
  <2>5. \A m, n \in 1..Len(natTable') : m # n =>
          /\ natTable'[m].flow # natTable'[n].flow
          /\ natTable'[m].port = natTable'[n].port => natTable'[m].port = NumPorts
    BY <2>2, KeptSound
  <2> QED
    BY <2>1, <2>4, <2>5 DEF TableInv, TableSound
<1>5. CASE OneMoreEntry
  <2>1. PICK e \in Entry :
          /\ e.port = FirstFree /\ \A m \in 1..Len(Kept) : Kept[m].flow # e.flow
          /\ natTable' = Append(Kept, e)
          /\ porttb' = [p \in Ports |-> MarksAfterExpiry[p] \/ p = FirstFree]
    BY <1>5 DEF OneMoreEntry
  <2>2. Kept \in Seq(Entry) /\ Len(Kept) \in Nat /\ \A m \in 1..Len(Kept) : Kept[m] \in Entry
    BY KeptEntries DEF TableInv
  <2>3. natTable' \in Seq(Entry) /\ Len(natTable') = Len(Kept) + 1
        /\ \A m \in 1..Len(natTable') : natTable'[m] = IF m = Len(Kept) + 1 THEN e ELSE Kept[m]
    BY <2>1, <2>2
  <2>4. porttb' \in [Ports -> BOOLEAN]
    BY <1>2, <2>1
  <2>5. TypeOK'
    BY <1>1, <2>3, <2>4 DEF TypeOK
  <2>6. \A m \in 1..Len(natTable') : natTable'[m].port \in Ports => porttb'[natTable'[m].port]
    <3> SUFFICES ASSUME NEW m \in 1..Len(natTable'), natTable'[m].port \in Ports
                 PROVE  porttb'[natTable'[m].port]
      OBVIOUS
    <3>1. CASE m = Len(Kept) + 1
      BY <2>1, <2>2, <2>3, <3>1
    <3>2. CASE m \in 1..Len(Kept)
      BY <2>1, <2>2, <2>3, <3>2, KeptSound
    <3> QED
      BY <2>2, <2>3, <3>1, <3>2
  <2>7. (PortsHeld \cap Ports \subseteq Marked)'
    BY <2>6 DEF PortsHeld, Marked
  <2>8. \A m \in 1..Len(Kept) : Kept[m].port = FirstFree => FirstFree = NumPorts
    <3>1. \A m \in 1..Len(Kept) : Kept[m].port \in 0..NumPorts
      BY <2>2 DEF Entry
    <3>2. FirstFree \in 0..NumPorts /\ (FirstFree \in Ports => ~MarksAfterExpiry[FirstFree])
      BY FirstFreeFacts
    <3>3. \A p \in 0..NumPorts : p \in Ports \/ p = NumPorts
      BY PortAssumption DEF Ports
    <3> QED
      BY <3>1, <3>2, <3>3, KeptSound
  <2>9. \A m, n \in 1..Len(natTable') : m # n =>
          /\ natTable'[m].flow # natTable'[n].flow
          /\ natTable'[m].port = natTable'[n].port => natTable'[m].port = NumPorts
    <3> SUFFICES ASSUME NEW m \in 1..Len(natTable'), NEW n \in 1..Len(natTable'), m # n
                 PROVE  /\ natTable'[m].flow # natTable'[n].flow
                        /\ natTable'[m].port = natTable'[n].port => natTable'[m].port = NumPorts
      OBVIOUS
    <3>1. CASE m = Len(Kept) + 1
      <4>1. n \in 1..Len(Kept) /\ natTable'[m] = e /\ natTable'[n] = Kept[n]
        BY <2>2, <2>3, <3>1
      <4> QED
        BY <2>1, <2>8, <4>1
    <3>2. CASE n = Len(Kept) + 1
      <4>1. m \in 1..Len(Kept) /\ natTable'[n] = e /\ natTable'[m] = Kept[m]
        BY <2>2, <2>3, <3>2
      <4> QED
        BY <2>1, <2>8, <4>1
    <3>3. CASE m # Len(Kept) + 1 /\ n # Len(Kept) + 1
      <4>1. m \in 1..Len(Kept) /\ n \in 1..Len(Kept)
            /\ natTable'[n] = Kept[n] /\ natTable'[m] = Kept[m]
        BY <2>2, <2>3, <3>3
      <4> QED
        BY <4>1, KeptSound
    <3> QED
      BY <3>1, <3>2, <3>3
  <2> QED
    BY <2>5, <2>7, <2>9 DEF TableInv, TableSound
<1> QED
  BY <1>3, <1>4, <1>5, PacketSteps

LEMMA TableStart == Init => TableInv
<1> SUFFICES ASSUME Init PROVE TableInv
  OBVIOUS
<1>1. natTable = << >> /\ now = 0 /\ porttb = [p \in Ports |-> FALSE]
  BY DEF Init
<1>2. natTable \in Seq(Entry) /\ Len(natTable) = 0
  BY <1>1
<1>3. TypeOK
  BY <1>1, <1>2 DEF TypeOK
<1>4. TableSound
  BY <1>2 DEF TableSound, PortsHeld
<1> QED
  BY <1>3, <1>4 DEF TableInv

-----------------------------------------------------------------------------

(* Every entry, mark and stamp is in its type: the port of an entry may    *)
(* lie behind the end of porttb, but by one only.                          *)
THEOREM Types == Spec => []TypeOK
<1>1. Init => TableInv
  BY TableStart
<1>2. TableInv /\ [Next]_vars => TableInv'
  BY TableStep
<1>3. TableInv => TypeOK
  BY DEF TableInv
<1> QED
  BY <1>1, <1>2, <1>3, PTL DEF Spec

(* search_entry() and remove_expiry() keep one entry per flow, the port of *)
(* every entry marked, and no port in two entries but the one behind the   *)
(* end of porttb, although marks leak.                                     *)
THEOREM Sound == Spec => []TableSound
<1>1. Init => TableInv
  BY TableStart
<1>2. TableInv /\ [Next]_vars => TableInv'
  BY TableStep
<1>3. TableInv => TableSound
  BY DEF TableInv
<1> QED
  BY <1>1, <1>2, <1>3, PTL DEF Spec

(* What expiry and the rest of Callback() leave marked.                    *)
LEMMA LeakedStep ==
  ASSUME TableInv, MarksAfterExpiry \in [Ports -> BOOLEAN],
         \/ SameEntries
         \/ OneMoreEntry
  PROVE  /\ Leaked \subseteq Leaked'
         /\ \A p \in Leaked' \ Leaked : p = natTable[Len(natTable)].port
<1>1. Len(natTable) \in Nat /\ Staying \in SUBSET (1..Len(natTable))
  BY StayingTypes DEF TableInv
<1>2. /\ Kept \in Seq(Entry) /\ Len(Kept) \in Nat
      /\ \A m \in 1..Len(Kept) : Place(m) \in Staying /\ Kept[m] = natTable[Place(m)]
      /\ \A i \in Staying : \E m \in 1..Len(Kept) : Kept[m] = natTable[i]
  BY KeptEntries DEF TableInv
<1> DEFINE Held == {Kept[m].port : m \in 1..Len(Kept)}
<1>3. /\ Held \subseteq PortsHeld' /\ PortsHeld' \subseteq Held \cup {FirstFree}
      /\ \A p \in Ports : MarksAfterExpiry[p] => porttb'[p]
      /\ \A p \in Ports : porttb'[p] => MarksAfterExpiry[p] \/ p \in PortsHeld'
  <2>1. CASE SameEntries
    <3>1. PortsHeld' = Held
      BY <2>1 DEF SameEntries, PortsHeld
    <3> HIDE DEF Held
    <3> QED
      BY <2>1, <3>1 DEF SameEntries
  <2>2. CASE OneMoreEntry
    <3>1. PICK e \in Entry :
            /\ e.port = FirstFree
            /\ natTable' = Append(Kept, e)
            /\ porttb' = [p \in Ports |-> MarksAfterExpiry[p] \/ p = FirstFree]
      BY <2>2 DEF OneMoreEntry
    <3>2. Len(natTable') = Len(Kept) + 1
          /\ \A m \in 1..Len(natTable') : natTable'[m] = IF m = Len(Kept) + 1 THEN e ELSE Kept[m]
      BY <1>2, <3>1
    <3>3. \A m \in 1..Len(Kept) : m \in 1..Len(natTable') /\ natTable'[m] = Kept[m]
      BY <1>2, <3>2
    <3>4. \A m \in 1..Len(natTable') : m \in 1..Len(Kept) \/ natTable'[m] = e
      BY <1>2, <3>2
    <3>5. \E m \in 1..Len(natTable') : natTable'[m] = e
      BY <1>2, <3>2
    <3>6. Held \subseteq PortsHeld' /\ PortsHeld' \subseteq Held \cup {FirstFree}
          /\ FirstFree \in PortsHeld'
      BY <3>1, <3>3, <3>4, <3>5 DEF PortsHeld
    <3> HIDE DEF Held
    <3> QED
      BY <3>1, <3>6
  <2> QED
    BY <2>1, <2>2
<1>4. /\ \A p \in Ports : MarksAfterExpiry[p] => porttb[p]
      /\ \A p \in Ports : porttb[p] => MarksAfterExpiry[p] \/ p \in Released
      /\ Released \subseteq PortsHeld
  <2>1. \A p \in Ports : MarksAfterExpiry[p] <=> porttb[p] /\ p \notin Released
    BY DEF MarksAfterExpiry
  <2>2. Released \subseteq PortsHeld
    BY <1>1 DEF Released, PortsHeld
  <2> QED
    BY <2>1, <2>2
<1>5. Held \subseteq PortsHeld
  <2>1. \A m \in 1..Len(Kept) : \E i \in 1..Len(natTable) : Kept[m].port = natTable[i].port
    BY <1>1, <1>2
  <2> QED
    BY <2>1 DEF PortsHeld
<1>6. FirstFree \in Ports => ~MarksAfterExpiry[FirstFree]
  BY FirstFreeFacts
<1>7. \A p \in PortsHeld : p \in Held \/ p \in Released \/ p = natTable[Len(natTable)].port
  <2> SUFFICES ASSUME NEW i \in 1..Len(natTable), natTable[i].port \notin Held,
                      natTable[i].port \notin Released
               PROVE  i = Len(natTable)
    BY DEF PortsHeld
  <2>1. i \notin Staying
    BY <1>2
  <2>2. Expired(natTable[i])
    BY <2>1 DEF Staying
  <2>3. i \notin 1..Len(natTable) - 1
    BY <2>2 DEF Released
  <2> QED
    BY <1>1, <2>3
<1>8. \A p \in Released : p \in Ports => ~MarksAfterExpiry[p]
  BY DEF MarksAfterExpiry
<1> HIDE DEF Held
<1>9. Leaked \subseteq Leaked'
  BY <1>3, <1>4, <1>5, <1>6 DEF Leaked, Marked
<1>10. ASSUME NEW p \in Leaked', p \notin Leaked PROVE p = natTable[Len(natTable)].port
  <2>1. p \in Ports /\ porttb'[p] /\ p \notin PortsHeld'
    BY DEF Leaked, Marked
  <2>2. MarksAfterExpiry[p] /\ p \notin Held
    BY <1>3, <2>1
  <2>3. p \in PortsHeld /\ p \notin Released
    BY <1>4, <1>8, <1>10, <2>1, <2>2 DEF Leaked, Marked
  <2> QED
    BY <1>7, <2>2, <2>3
<1> QED
  BY <1>9, <1>10

(* A mark that remove_expiry() failed to clear stays set for good, and one *)
(* Callback() fails to clear at most one: that of the last entry.          *)
THEOREM LeaksOneByOne == Spec => OneLeakPerCallback
<1>1. Init => TableInv
  BY TableStart
<1>2. TableInv /\ [Next]_vars => TableInv'
  BY TableStep
<1>3. ASSUME TableInv, [Next]_vars
      PROVE  Leaked \subseteq Leaked' /\ Cardinality(Leaked' \ Leaked) <= 1
  <2>1. CASE UNCHANGED <<natTable, porttb>>
    <3>1. Leaked' = Leaked
      BY <2>1 DEF Leaked, Marked, PortsHeld
    <3>2. Leaked' \ Leaked = {}
      BY <3>1
    <3> QED
      BY <3>1, <3>2, FS_EmptySet
  <2>2. CASE SameEntries \/ OneMoreEntry
    <3>1. /\ Leaked \subseteq Leaked'
          /\ \A p \in Leaked' \ Leaked : p = natTable[Len(natTable)].port
      <4>1. MarksAfterExpiry \in [Ports -> BOOLEAN]
        <5>1. \A p \in Ports : porttb[p] \in BOOLEAN
          BY <1>3 DEF TableInv, TypeOK
        <5> QED
          BY <5>1 DEF MarksAfterExpiry
      <4> QED
        BY <1>3, <2>2, <4>1, LeakedStep
    <3> DEFINE one == {natTable[Len(natTable)].port}
    <3>2. IsFiniteSet(one) /\ Cardinality(one) = 1
      BY FS_Singleton
    <3>3. Leaked' \ Leaked \in SUBSET one
      BY <3>1
    <3> HIDE DEF one
    <3>4. Cardinality(Leaked' \ Leaked) <= 1
      BY <3>2, <3>3, FS_Subset
    <3> QED
      BY <3>1, <3>4
  <2> QED
    BY <1>3, <2>1, <2>2, PacketSteps
<1> QED
  BY <1>1, <1>2, <1>3, PTL DEF Spec, OneLeakPerCallback
=============================================================================

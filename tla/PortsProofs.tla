----------------------------- MODULE PortsProofs -----------------------------
(* Proofs about Ports, for every range, every set of ids and every port.   *)
EXTENDS Ports, FiniteSetTheorems, WellFoundedInduction, TLAPS

LEMMA LeastIndex ==
    ASSUME NEW T \in SUBSET Nat, T # {}
    PROVE  \E n \in T : \A m \in T : n <= m
<1> DEFINE R == {ss \in Nat \X Nat : ss[1] < ss[2]}
<1>1. IsWellFoundedOn(R, Nat)
  BY NatLessThanWellFounded DEF OpToRel
<1>2. PICK n \in T : \A m \in T : <<m, n>> \notin R
  <2> HIDE DEF R
  <2>. QED BY <1>1, WFMin
<1>3. \A m \in T : n <= m
  <2> SUFFICES ASSUME NEW m \in T, m < n PROVE FALSE
    OBVIOUS
  <2>1. <<m, n>> \in R
    OBVIOUS
  <2>. QED
    BY <1>2, <2>1
<1>. QED
  BY <1>3

(* The walk base..High, Low..base-1 visits every port of the range, and    *)
(* nothing else.                                                           *)
LEMMA OrderVisitsRange ==
    ASSUME NEW base \in InRange
    PROVE  /\ \A k \in DOMAIN Order(base) : Order(base)[k] \in InRange
           /\ \A p \in InRange : \E k \in DOMAIN Order(base) : Order(base)[k] = p
<1>1. \A k \in DOMAIN Order(base) : Order(base)[k] \in InRange
  BY PortsAssumption DEF Order, InRange
<1>2. ASSUME NEW p \in InRange, p >= base
      PROVE  \E k \in DOMAIN Order(base) : Order(base)[k] = p
  <2>1. p - base + 1 \in DOMAIN Order(base) /\ Order(base)[p - base + 1] = p
    BY <1>2, PortsAssumption DEF Order, InRange
  <2>. QED
    BY <2>1
<1>3. ASSUME NEW p \in InRange, p < base
      PROVE  \E k \in DOMAIN Order(base) : Order(base)[k] = p
  <2> DEFINE k == p - base + 1 + (High - Low + 1)
  <2>1. k \in DOMAIN Order(base) /\ Order(base)[k] = p
    BY <1>3, PortsAssumption DEF Order, InRange
  <2>. QED
    BY <2>1
<1>. QED
  BY <1>1, <1>2, <1>3, PortsAssumption DEF InRange

(* What Allocate finds is free and in the range.                           *)
THEOREM AllocateFindsFree ==
    ASSUME NEW base \in Int, NEW taken
    PROVE  Allocate(base, taken) \subseteq InRange \ taken
<1>1. First(base) \in InRange
  BY PortsAssumption DEF First, InRange
<1>. QED
  BY <1>1, OrderVisitsRange DEF Allocate

(* Allocate fails only when no port of the range is free.                  *)
THEOREM AllocateComplete ==
    ASSUME NEW base \in Int, NEW taken, ~(InRange \subseteq taken)
    PROVE  Allocate(base, taken) # {}
<1> DEFINE o    == Order(First(base))
           free == {k \in DOMAIN o : o[k] \notin taken}
<1>1. First(base) \in InRange
  BY PortsAssumption DEF First, InRange
<1>2. free # {}
  BY <1>1, OrderVisitsRange
<1>3. DOMAIN o = 1 .. (High - Low + 1)
  BY DEF Order
<1>4. free \in SUBSET Nat
  BY <1>3, PortsAssumption
<1>5. PICK n \in free : \A m \in free : n <= m
  <2> HIDE DEF free
  <2>. QED
    BY <1>2, <1>4, LeastIndex
<1>6. n \in DOMAIN o /\ o[n] \notin taken
  OBVIOUS
<1>7. \A m \in 1 .. (n - 1) : o[m] \in taken
  BY <1>3, <1>4, <1>5, PortsAssumption
<1>8. o[n] \in Allocate(base, taken)
  BY <1>6, <1>7 DEF Allocate
<1>. QED
  BY <1>8

-----------------------------------------------------------------------------
(* Two records share a port only if their creations overlapped             *)

LEMMA InitHolds == Init => IInv
BY DEF Init, IInv, TypeOK, SharedOnlyByOverlap, ChoosersInformed, StagesRight

LEMMA ChoosePortKeeps ==
    ASSUME IInv, NEW i \in Ids, ChoosePort(i)
    PROVE  IInv'
<1> DEFINE taken == reserved[i] \cup Bound
<1>1. PICK found \in {Pin(p, taken) : p \in Ports} \cup {Allocate(b, taken) : b \in Bases} :
         \/ \E p \in found : /\ chosen' = [chosen EXCEPT ![i] = p]
                            /\ making' = [making EXCEPT ![i] = "chosen"]
         \/ /\ making' = [making EXCEPT ![i] = "no"]
            /\ UNCHANGED chosen
  BY DEF ChoosePort
<1>2. found \subseteq Ports \ taken
  <2>1. CASE \E p \in Ports : found = Pin(p, taken)
    BY <2>1 DEF Pin
  <2>2. ASSUME NEW b \in Bases, found = Allocate(b, taken)
        PROVE  found \subseteq Ports \ taken
    <3>1. b \in Int
      BY PortsAssumption
    <3>. QED
      BY <2>2, <3>1, AllocateFindsFree, PortsAssumption DEF InRange
  <2>. QED
    BY <1>1, <2>1, <2>2
<1>3. CASE \E p \in found : /\ chosen' = [chosen EXCEPT ![i] = p]
                           /\ making' = [making EXCEPT ![i] = "chosen"]
  <2>1. PICK p \in Ports \ reserved[i] :
           /\ chosen' = [chosen EXCEPT ![i] = p]
           /\ making' = [making EXCEPT ![i] = "chosen"]
    BY <1>2, <1>3
  <2>2. TypeOK'
    BY <2>1 DEF IInv, TypeOK, ChoosePort
  <2>3. SharedOnlyByOverlap' /\ StagesRight'
    BY <2>1, PortsAssumption
       DEF IInv, TypeOK, SharedOnlyByOverlap, StagesRight, ChoosePort
  <2>4. ChoosersInformed'
    BY <2>1 DEF IInv, TypeOK, ChoosersInformed, ChoosePort
  <2>. QED
    BY <2>2, <2>3, <2>4 DEF IInv
<1>4. CASE making' = [making EXCEPT ![i] = "no"] /\ UNCHANGED chosen
  BY <1>4 DEF IInv, TypeOK, SharedOnlyByOverlap, ChoosersInformed, StagesRight,
              ChoosePort
<1>. QED
  BY <1>1, <1>3, <1>4

LEMMA RecordKeeps ==
    ASSUME IInv, NEW i \in Ids, Record(i)
    PROVE  IInv'
<1>1. TypeOK' /\ StagesRight'
  BY DEF IInv, TypeOK, StagesRight, Record
<1>2. \A j \in Ids : making[j] \in {"allocating", "chosen"} => {i, j} \in overlap'
  BY DEF Record
<1>3. overlap \subseteq overlap'
  BY DEF Record
<1>4. SharedOnlyByOverlap'
  <2>1. \A j \in Ids : j # i /\ port[j] # None /\ port[j] = chosen[i]
           => {i, j} \in overlap
    BY DEF IInv, ChoosersInformed, Record
  <2>2. \A j \in Ids : {i, j} = {j, i}
    OBVIOUS
  <2>. QED
    BY <1>3, <2>1, <2>2 DEF IInv, TypeOK, SharedOnlyByOverlap, Record
<1>5. ChoosersInformed'
  <2> SUFFICES ASSUME NEW k \in Ids, NEW j \in Ids, k # j, port'[j] # None
               PROVE  /\ making'[k] = "allocating"
                            => port'[j] \in reserved'[k] \/ {k, j} \in overlap'
                      /\ making'[k] = "chosen"
                            => port'[j] # chosen'[k] \/ {k, j} \in overlap'
    BY DEF ChoosersInformed
  <2>1. CASE k = i
    BY <2>1 DEF IInv, TypeOK, Record
  <2>2. CASE j = i
    <3>1. {k, j} = {i, k}
      BY <2>2
    <3>. QED
      BY <1>2, <2>2, <3>1 DEF IInv, TypeOK, Record
  <2>3. CASE k # i /\ j # i
    BY <1>3, <2>3 DEF IInv, TypeOK, ChoosersInformed, Record
  <2>. QED
    BY <2>1, <2>2, <2>3
<1>. QED
  BY <1>1, <1>4, <1>5 DEF IInv

(* An entry is given up, and with it every overlap it was part of.         *)
LEMMA EntryGone ==
    ASSUME IInv, NEW i \in Ids, Rollback(i) \/ Remove(i)
    PROVE  IInv'
<1>1. /\ port' = [port EXCEPT ![i] = None]
      /\ overlap' = {pair \in overlap : i \notin pair}
      /\ making' = [making EXCEPT ![i] = "no"]
      /\ UNCHANGED <<chosen, running, foreign, reserved>>
      /\ making[i] \notin {"allocating", "chosen"}
  BY DEF Rollback, Remove, IInv, TypeOK
<1>2. TypeOK' /\ StagesRight'
  BY <1>1 DEF IInv, TypeOK, StagesRight
<1>3. SharedOnlyByOverlap'
  BY <1>1 DEF IInv, TypeOK, SharedOnlyByOverlap
<1>4. ChoosersInformed'
  BY <1>1 DEF IInv, TypeOK, ChoosersInformed
<1>. QED
  BY <1>2, <1>3, <1>4 DEF IInv

LEMMA NewAllocatorKeeps ==
    ASSUME IInv, NEW i \in Ids, NewAllocator(i)
    PROVE  IInv'
<1>1. TypeOK' /\ StagesRight' /\ SharedOnlyByOverlap'
  BY DEF IInv, TypeOK, StagesRight, SharedOnlyByOverlap, NewAllocator, TakenPorts
<1>2. \A j \in Ids : port[j] # None => port[j] \in TakenPorts
  BY DEF TakenPorts
<1>3. ChoosersInformed'
  BY <1>2 DEF IInv, TypeOK, ChoosersInformed, NewAllocator
<1>. QED
  BY <1>1, <1>3 DEF IInv

LEMMA NextKeeps == IInv /\ [Next]_vars => IInv'
<1> SUFFICES ASSUME IInv, [Next]_vars PROVE IInv'
  OBVIOUS
<1> USE DEF IInv, TypeOK, SharedOnlyByOverlap, ChoosersInformed, StagesRight
<1>1. ASSUME NEW i \in Ids, Created(i)
      PROVE  IInv'
  BY <1>1 DEF Created
<1>2. ASSUME NEW i \in Ids, StartContainer(i) \/ StopContainer(i)
      PROVE  IInv'
  BY <1>2 DEF StartContainer, StopContainer
<1>3. ASSUME NEW p \in Ports, Foreign(p)
      PROVE  IInv'
  BY <1>3 DEF Foreign
<1>4. CASE UNCHANGED vars
  BY <1>4 DEF vars
<1>. QED
  BY <1>1, <1>2, <1>3, <1>4, NewAllocatorKeeps, ChoosePortKeeps, RecordKeeps,
     EntryGone DEF Next

(* What creations know of each other, in every behaviour.                  *)
THEOREM Invariance == Spec => []IInv
  BY InitHolds, NextKeeps, PTL DEF Spec

(* Records, choices and reservations are of ports there are.               *)
THEOREM TypeCorrect == Spec => []TypeOK
<1>1. IInv => TypeOK
  BY DEF IInv
<1>. QED
  BY <1>1, Invariance, PTL

(* A port is shared only by instances that were being created at the same  *)
(* time: manager.go:397-405 reserves every recorded port, running or not,  *)
(* and the allocator never hands out a reserved one.                       *)
THEOREM OnlyOverlapShares == Spec => []SharedOnlyByOverlap
<1>1. IInv => SharedOnlyByOverlap
  BY DEF IInv
<1>. QED
  BY <1>1, Invariance, PTL

-----------------------------------------------------------------------------
(* The search, in every state                                              *)

(* At most one port is found: of two, the later one would have the earlier *)
(* one, which is free, before it.                                          *)
LEMMA AllocateUnique ==
    ASSUME NEW base \in Int, NEW taken,
           NEW p \in Allocate(base, taken), NEW q \in Allocate(base, taken)
    PROVE  p = q
<1> DEFINE o == Order(First(base))
<1>1. PICK k \in DOMAIN o : /\ p = o[k] /\ o[k] \notin taken
                            /\ \A m \in 1 .. (k - 1) : o[m] \in taken
  BY DEF Allocate
<1>2. PICK n \in DOMAIN o : /\ q = o[n] /\ o[n] \notin taken
                            /\ \A m \in 1 .. (n - 1) : o[m] \in taken
  BY DEF Allocate
<1>3. DOMAIN o = 1 .. (High - Low + 1)
  BY DEF Order
<1>4. k \in Int /\ n \in Int /\ 1 <= k /\ 1 <= n
  BY <1>3, PortsAssumption
<1>5. ~(k < n) /\ ~(n < k)
  <2> HIDE DEF o
  <2>. QED
    BY <1>1, <1>2, <1>4
<1>. QED
  BY <1>1, <1>2, <1>4, <1>5

(* Whatever has been recorded, started or bound by then, a creation's      *)
(* search of the range (ports.go:94-113) finds one port when one is free, *)
(* that port is free, and it fails otherwise.                              *)
THEOREM SearchesExact == Spec => []AllocatorExact
<1>1. AllocatorExact
  <2> SUFFICES ASSUME NEW i \in Ids, NEW base \in Bases
               PROVE  LET taken == reserved[i] \cup Bound
                          found == Allocate(base, taken)
                      IN  /\ found = {} <=> InRange \subseteq taken
                          /\ found \subseteq InRange \ taken
                          /\ Cardinality(found) <= 1
    BY DEF AllocatorExact
  <2> DEFINE taken == reserved[i] \cup Bound
             found == Allocate(base, taken)
  <2>1. base \in Int
    BY PortsAssumption
  <2>2. found \subseteq InRange \ taken
    BY <2>1, AllocateFindsFree
  <2>3. found = {} <=> InRange \subseteq taken
    BY <2>1, <2>2, AllocateComplete
  <2>4. Cardinality(found) <= 1
    <3>1. CASE found = {}
      BY <3>1, FS_EmptySet
    <3>2. CASE found # {}
      <4>1. PICK p \in found : TRUE
        BY <3>2
      <4>2. found = {p}
        BY <2>1, <4>1, AllocateUnique
      <4>. QED
        BY <4>2, FS_Singleton
    <3>. QED
      BY <3>1, <3>2
  <2>. QED
    BY <2>2, <2>3, <2>4
<1>. QED
  BY <1>1, PTL

=============================================================================

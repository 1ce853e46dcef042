-------------------------------- MODULE Ports --------------------------------
(***************************************************************************)
(* How an instance gets its host port: the allocator of internal/ports,    *)
(* and the creations that use it at the same time.                         *)
(*                                                                         *)
(* Every creation builds an allocator of its own from the ports of the     *)
(* instances recorded so far, chooses, and records the instance in a later *)
(* mu section.  The id mutex is per instance, so it does not keep two      *)
(* creations apart.  A probe binds the port and closes it again, so it     *)
(* sees containers that run and other programs, not choices under way.     *)
(***************************************************************************)
EXTENDS Integers, FiniteSets

CONSTANTS
    None,       \* no port, or no creation
    Low, High,  \* the range searched
    Ids,        \* instance ids
    Ports,      \* every port there is; a pinned one need not be in the range
    Bases       \* the engines' default bases, in the range or not

ASSUME PortsAssumption ==
    /\ Low \in Nat /\ High \in Nat /\ Low <= High
    /\ Low .. High \subseteq Ports /\ Ports \subseteq Nat /\ Bases \subseteq Nat
    /\ None \notin Ports

InRange == Low .. High

-----------------------------------------------------------------------------
(* The allocator                                                           *)

SlipOrder(base) ==
    [k \in 1 .. (High - Low) |->
        IF base + k - 1 <= High THEN base + k - 1
                                ELSE base + k - 1 - (High - Low + 1)]

SlipNoWrap(base) == [k \in 1 .. (High - Low + 1) |-> base + k - 1]

(* base..High, then Low..base-1.                                           *)
Order(base) ==
    [k \in 1 .. (High - Low + 1) |->
        IF base + k - 1 <= High THEN base + k - 1
                                ELSE base + k - 1 - (High - Low + 1)]

First(base) == IF base \in InRange THEN base ELSE Low

(* Allocate: the first port in order that is neither reserved nor bound,   *)
(* or none at all.                                                         *)
Allocate(base, taken) ==
    LET o == Order(First(base)) IN
    {o[k] : k \in {n \in DOMAIN o : /\ o[n] \notin taken
                                   /\ \A m \in 1 .. (n - 1) : o[m] \in taken}}

(* Pin: the port asked for, in the range or not.                           *)
Pin(p, taken) == {p} \ taken

-----------------------------------------------------------------------------
(* Creations                                                               *)

VARIABLES
    port,      \* id -> the port its record carries
    chosen,    \* id -> the port a creation under way has chosen
    making,    \* id -> how far its creation is
    running,   \* ids whose container runs, and so binds its port
    foreign,   \* ports bound by other programs
    reserved,  \* id -> the ports its creation's allocator started from
    overlap    \* history: pairs of ids whose creations overlapped in choosing

vars == <<port, chosen, making, running, foreign, reserved, overlap>>

Init ==
    /\ port = [i \in Ids |-> None] /\ chosen = [i \in Ids |-> None]
    /\ making = [i \in Ids |-> "no"]
    /\ running = {} /\ foreign = {}
    /\ reserved = [i \in Ids |-> {}] /\ overlap = {}

Bound == foreign \cup {port[i] : i \in running}

SlipTakenRunning == {port[i] : i \in running}

(* Every recorded instance keeps its port, running or not.                 *)
TakenPorts == {port[i] : i \in {j \in Ids : port[j] # None}}

(* ports.New(..., m.takenPorts())                                          *)
NewAllocator(i) ==
    /\ port[i] = None /\ making[i] = "no"
    /\ reserved' = [reserved EXCEPT ![i] = TakenPorts]
    /\ making' = [making EXCEPT ![i] = "allocating"]
    /\ UNCHANGED <<port, chosen, running, foreign, overlap>>

(* A port asked for, or one from the range; failing leaves no trace.       *)
ChoosePort(i) ==
    /\ making[i] = "allocating"
    /\ LET taken == reserved[i] \cup Bound IN
       \E found \in {Pin(p, taken) : p \in Ports}
                    \cup {Allocate(b, taken) : b \in Bases} :
          \/ \E p \in found : /\ chosen' = [chosen EXCEPT ![i] = p]
                              /\ making' = [making EXCEPT ![i] = "chosen"]
          \/ /\ found = {}
             /\ making' = [making EXCEPT ![i] = "no"]
             /\ UNCHANGED chosen
    /\ reserved' = [reserved EXCEPT ![i] = {}]
    /\ UNCHANGED <<port, running, foreign, overlap>>

(* m.instances[inst.ID] = &inst. From here the port is taken.              *)
Record(i) ==
    /\ making[i] = "chosen"
    /\ port' = [port EXCEPT ![i] = chosen[i]]
    /\ chosen' = [chosen EXCEPT ![i] = None]
    /\ making' = [making EXCEPT ![i] = "recorded"]
    /\ overlap' = overlap \cup
          {{i, j} : j \in {k \in Ids : making[k] \in {"allocating", "chosen"}}}
    /\ UNCHANGED <<running, foreign, reserved>>

(* The rest of the creation fails: the entry and its port are given up.    *)
Rollback(i) ==
    /\ making[i] = "recorded"
    /\ port' = [port EXCEPT ![i] = None]
    /\ making' = [making EXCEPT ![i] = "no"]
    /\ overlap' = {pair \in overlap : i \notin pair}
    /\ UNCHANGED <<chosen, running, foreign, reserved>>

Created(i) ==
    /\ making[i] = "recorded"
    /\ making' = [making EXCEPT ![i] = "no"]
    /\ UNCHANGED <<port, chosen, running, foreign, reserved, overlap>>

(* Podman publishes the port when a container starts, and refuses to start *)
(* one whose port is bound.                                                *)
StartContainer(i) ==
    /\ port[i] # None /\ making[i] = "no" /\ i \notin running
    /\ port[i] \notin Bound
    /\ running' = running \cup {i}
    /\ UNCHANGED <<port, chosen, making, foreign, reserved, overlap>>

StopContainer(i) ==
    /\ i \in running
    /\ running' = running \ {i}
    /\ UNCHANGED <<port, chosen, making, foreign, reserved, overlap>>

Remove(i) ==
    /\ port[i] # None /\ making[i] = "no" /\ i \notin running
    /\ port' = [port EXCEPT ![i] = None]
    /\ overlap' = {pair \in overlap : i \notin pair}
    /\ UNCHANGED <<chosen, making, running, foreign, reserved>>

(* Another program binds a port, or lets go of one.                        *)
Foreign(p) ==
    /\ foreign' = IF p \in foreign THEN foreign \ {p} ELSE foreign \cup {p}
    /\ p \notin {port[i] : i \in running}
    /\ UNCHANGED <<port, chosen, making, running, reserved, overlap>>

Next ==
    \/ \E i \in Ids :
          \/ NewAllocator(i) \/ ChoosePort(i) \/ Record(i) \/ Rollback(i)
          \/ Created(i) \/ StartContainer(i) \/ StopContainer(i) \/ Remove(i)
    \/ \E p \in Ports : Foreign(p)

Spec == Init /\ [][Next]_vars

-----------------------------------------------------------------------------
(* Properties                                                              *)

TypeOK ==
    /\ port \in [Ids -> Ports \cup {None}]
    /\ chosen \in [Ids -> Ports \cup {None}]
    /\ making \in [Ids -> {"no", "allocating", "chosen", "recorded"}]
    /\ running \subseteq Ids /\ foreign \subseteq Ports
    /\ reserved \in [Ids -> SUBSET Ports]
    /\ overlap \subseteq SUBSET Ids

(* Two records carry the same port only if the two instances were being    *)
(* created at the same time: a stopped, missing or removed neighbour, a    *)
(* failed creation and other programs never lead to it.  Overlapping ones  *)
(* do: the choice and the record are two mu sections (manager.go:497-509,  *)
(* 537), although README.md:628-629 calls the allocation race-free.        *)
SharedOnlyByOverlap ==
    \A i, j \in Ids :
        i # j /\ port[i] # None /\ port[i] = port[j] => {i, j} \in overlap

(* What a creation still relies on: each recorded port is one its          *)
(* allocator knows of, or one recorded while it was choosing.              *)
ChoosersInformed ==
    \A i, j \in Ids :
        i # j /\ port[j] # None =>
            /\ making[i] = "allocating" => port[j] \in reserved[i] \/ {i, j} \in overlap
            /\ making[i] = "chosen" => port[j] # chosen[i] \/ {i, j} \in overlap

(* A creation has a port from the choice on, a record from Record on.      *)
StagesRight ==
    \A i \in Ids :
        /\ making[i] \in {"allocating", "chosen"} => port[i] = None
        /\ making[i] = "chosen" => chosen[i] # None

IInv == TypeOK /\ SharedOnlyByOverlap /\ ChoosersInformed /\ StagesRight

(* A creation that searches the range finds a port exactly when one is     *)
(* free, whatever base it starts from, and what it finds is free.          *)
AllocatorExact ==
    \A i \in Ids, base \in Bases :
        making[i] = "allocating" =>
            LET taken == reserved[i] \cup Bound
                found == Allocate(base, taken)
            IN  /\ found = {} <=> InRange \subseteq taken
                /\ found \subseteq InRange \ taken
                /\ Cardinality(found) <= 1

=============================================================================

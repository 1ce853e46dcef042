------------------------------ MODULE Ownership ------------------------------
(***************************************************************************)
(* What the manager's locks, its inflight count and its generation counter *)
(* promise together, without any of them: the map of instances is shared,  *)
(* and an entry is changed only                                            *)
(*   - by the thread that has taken it, until that thread gives it back;   *)
(*   - by the shutdown, which marks entries that nobody has taken;         *)
(*   - by a survey of what really runs, which may replace every entry, and *)
(*     only while no thread is in the middle of changing one.              *)
(* Module Manager is shown to implement this specification.                *)
(***************************************************************************)
CONSTANTS
    Ids,      \* what the entries are named by
    Threads,  \* who changes them
    Entry,    \* what an entry may be
    None,     \* no entry, or nobody
    Idle      \* where a thread is that does nothing

VARIABLES
    map,      \* the entries
    holder,   \* who has taken each id
    writing,  \* the ids whose entry is half changed
    at        \* where each thread is in its work: it tells who took a step

vars == <<map, holder, writing, at>>

Vacant == [i \in Ids |-> None]
Rest   == [t \in Threads |-> Idle]

Init == map = Vacant /\ holder = Vacant /\ writing = {} /\ at = Rest

(* The step is t's.                                                        *)
Alone(t) == at'[t] # at[t] /\ \A u \in Threads \ {t} : at'[u] = at[u]

(* No entry changes but that of i.                                         *)
Change(i) ==
    /\ map' \in [Ids -> Entry \cup {None}]
    /\ \A j \in Ids \ {i} : map'[j] = map[j]

Go(t) == Alone(t) /\ UNCHANGED <<map, holder, writing>>

Take(t, i) ==
    /\ Alone(t) /\ holder[i] = None
    /\ holder' = [holder EXCEPT ![i] = t]
    /\ UNCHANGED <<map, writing>>

Use(t, i) ==
    /\ Alone(t) /\ holder[i] = t
    /\ Change(i)
    /\ writing' = writing \cup {i}
    /\ UNCHANGED holder

Give(t, i) ==
    /\ Alone(t) /\ holder[i] = t
    /\ holder' = [holder EXCEPT ![i] = None]
    /\ writing' = writing \ {i}
    /\ UNCHANGED map

Mark(i) == holder[i] = None /\ Change(i) /\ UNCHANGED <<holder, writing, at>>

Survey(t) ==
    /\ Alone(t) /\ writing = {}
    /\ map' \in [Ids -> Entry \cup {None}]
    /\ UNCHANGED <<holder, writing>>

(* The process that keeps the map ends.                                    *)
Fall == map' = Vacant /\ holder' = Vacant /\ writing' = {} /\ at' = Rest

Next ==
    \/ \E t \in Threads :
          \/ Go(t) \/ Survey(t)
          \/ \E i \in Ids : Take(t, i) \/ Use(t, i) \/ Give(t, i)
    \/ \E i \in Ids : Mark(i)
    \/ Fall

Spec == Init /\ [][Next]_vars

=============================================================================

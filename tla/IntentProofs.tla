---------------------------- MODULE IntentProofs ----------------------------
(***************************************************************************)
(* Proofs about what Manager keeps of the user's intent, for every set of  *)
(* ids, clients, requests, policies, faults and events: the records say    *)
(* what was asked, a stopped instance stays stopped, no container is left  *)
(* without its entry or its data, a shutdown stops everything, and the     *)
(* file follows memory.                                                    *)
(*                                                                         *)
(* The argument has three layers.  StepEffect reads off each action of     *)
(* Manager what it does to the state these properties look at, as one of   *)
(* the nineteen effects below.  Every conjunct of the invariant is then    *)
(* kept by every effect, one lemma per conjunct, without looking at the    *)
(* actions again.  The theorems at the end are consequences.               *)
(*                                                                         *)
(* What is said of a record is said of all its copies at once: the file,   *)
(* the snapshots on their way to it, and the map in memory.                *)
(***************************************************************************)
EXTENDS ManagerProofs

-----------------------------------------------------------------------------
(* The inductive invariant: threads                                        *)

(* Between the removal of a container and that of its entry it is gone.    *)
Removing == \A t \in Threads : pc[t] = "removed" => container[target[t]] = None

(* Where a thread can be, given its request; who may be saving.            *)
ShapeOf(t) ==
    /\ pc[t] = "wait" => op[t] \in Ops \cap (Transitions \cup Creations)
    /\ pc[t] \in {"pulling", "entered", "recorded", "created", "rollback"} =>
          op[t] \in Ops \cap Creations
    /\ pc[t] \in {"locked", "begun"} => op[t] \in (Ops \cap Transitions) \cup Restorers
    /\ pc[t] = "created" => op[t] = "create"
    /\ pc[t] \in {"restore", "restoring"} => op[t] \in Restorers
    /\ pc[t] = "halfway" => op[t] \in Ops \cap {"restart"}
    /\ pc[t] = "removed" => op[t] \in Ops \cap {"remove"}
    /\ t \in saving => pc[t] \in SavePoints
    /\ t \notin older[t]

Shape == \A t \in Threads : ShapeOf(t)

FirstPass == {"load", "loaded", "listed"}

(* During the boot the supervisor is alone, so its pass is not overtaken.  *)
Boot ==
    /\ phase # "up" => moved = {}
    /\ phase = "boot" => /\ \A t \in Clients : pc[t] = "idle"
                         /\ op[Supervisor] = "supervise" /\ pc[Supervisor] # "idle"

(* The first pass has filled the map.                                      *)
Ready == phase = "up" \/ (phase = "boot" /\ pc[Supervisor] \notin FirstPass)

-----------------------------------------------------------------------------
(* The inductive invariant: records                                        *)

(* A pass that would still be committed if nothing more happened.          *)
Eligible(t) == pc[t] \in Reconciling /\ t \notin moved \cup behind

(* A request has changed a container and will save: gen is bound to move.  *)
Unsaved == \E u \in Threads : pc[u] \in {"created", "dirty"} /\ u \notin saving

Up(c) == c # None /\ c.state = "running"

Creating(p) == p # None /\ p.status = "creating"

(* Whatever a pass makes of this entry, its intent is one that was asked:  *)
(* a pass drops an entry still being created if it finds no container.     *)
Good(i, p) == Recorded(p) \in asked[i] /\ (Creating(p) => "gone" \in asked[i])

(* What a pass that may commit has read is what there is: the file as it   *)
(* is, and a listing that misses nothing that is there or runs.            *)
Reads == \A t \in Threads :
    /\ Eligible(t) => saving = {} /\ view[t] = file
    /\ Eligible(t) /\ pc[t] = "listed" =>
          \A i \in Ids : live[t][i] # None => file[i] # None
    /\ pc[t] = "listed" /\ t \notin moved /\ ~Unsaved => \A i \in Ids :
          container[i] # None =>
             live[t][i] # None /\ (Up(container[i]) => live[t][i].state = "running")

(* A creation under way: nothing is there before it, and until it has      *)
(* answered it may leave nothing behind.                                   *)
Creates == \A t \in Threads :
    /\ pc[t] \in {"pulling", "entered", "recorded", "rollback"} =>
          container[target[t]] = None
    /\ pc[t] \in {"pulling", "entered", "recorded", "created", "rollback"} =>
          "gone" \in asked[target[t]]
    /\ pc[t] \in {"entered", "recorded", "created"} =>
          instances[target[t]].desired = Intent(op[t])
    /\ pc[t] = "created" => instances[target[t]].status # "creating"
    /\ pc[t] = "rollback" => instances[target[t]] = None

(* All copies of the records that a later step may read.                   *)
Copies == {file} \cup {view[u] : u \in saving} \cup (IF Ready THEN {instances} ELSE {})

(* Every snapshot not older than a request's own has that request's entry. *)
Agreed == \A t \in saving : pc[t] \in {"entered", "dirty", "rollback"} =>
    \A u \in saving : u \notin older[t] => view[u][target[t]] = instances[target[t]]

(* No container is made before its entry is in every copy.                 *)
Known == \A t \in Threads :
    pc[t] = "recorded" => \A m \in Copies : m[target[t]] # None

Named == \A i \in Ids : container[i] # None => \A m \in Copies : m[i] # None

Kept == \A i \in Ids : \A m \in Copies : Good(i, m[i])

(* A request about to succeed has recorded its intent, and a stop stopped. *)
Done == \A t \in Threads :
    pc[t] = "dirty" /\ t \notin failed /\ op[t] \in Intentional =>
        /\ Recorded(instances[target[t]]) = Intent(op[t])
        /\ ~Creating(instances[target[t]])
        /\ op[t] \in {"stop", "createStopped"} => ~Up(container[target[t]])

Stopped == \A i \in Ids : asked[i] = {"stopped"} => ~Up(container[i])

(* Memory knows what runs: a shutdown stops what memory says is running.   *)
Running == Ready => \A i \in Ids :
    Up(container[i]) => instances[i] # None /\ instances[i].status = "running"

Halfway == \A t \in Threads : pc[t] = "halfway" => ~Up(container[target[t]])

Suspending == "podman" \notin Faults => \A t \in Threads :
    /\ pc[t] = "suspending" => \A i \in Ids : Up(container[i]) => i \in todo[t]
    /\ pc[t] \in {"suspended", "quit"} => \A i \in Ids : ~Up(container[i])

(* Where a thread has a change to save, or is in the middle of one.        *)
Owing == {"entered", "rollback", "dirty", "drifted", "suspending", "suspended"}

Same(m) == \A i \in Ids : Lasting(m[i]) = Lasting(instances[i])

(* When all that is owed is on its way, the last save to be made, and all  *)
(* that may follow it, has what memory has: saves pending may overtake one *)
(* another, but not a later snapshot without opening a window.             *)
Written ==
    ("disk" \notin Faults /\ Ready /\ (\A u \in Threads : pc[u] \in Owing => u \in saving)) =>
        \/ /\ Same(file)
           /\ \A u \in saving : Same(view[u])
        \/ \E c \in saving :
              /\ Same(view[c])
              /\ \A u \in saving : Same(view[u]) \/ u \in older[c]

Story ==
    /\ Reads /\ Creates /\ Agreed /\ Known /\ Named /\ Kept /\ Done /\ Stopped
    /\ Running /\ Halfway /\ Suspending /\ Written

IntentInv == Shape /\ Boot /\ Removing /\ DataUnderContainer /\ (windows = {} => Story)

-----------------------------------------------------------------------------
(* One thread at a time                                                    *)

(* What a step of t leaves alone of the other threads.                     *)
Alone(t) ==
    /\ \A u \in Threads \ {t} :
          /\ pc'[u] = pc[u] /\ op'[u] = op[u] /\ target'[u] = target[u]
          /\ todo'[u] = todo[u] /\ view'[u] = view[u] /\ live'[u] = live[u]
          /\ older'[u] \subseteq older[u]
          /\ (u \in failed') <=> (u \in failed)
          /\ (u \in saving') <=> (u \in saving)
          /\ (u \in behind') <=> (u \in behind)
          /\ u \in moved => u \in moved'
    /\ pc' \in [Threads -> Location] /\ op' \in [Threads -> Ops \cup {"supervise", None}]

(* A step of one thread leaves the control state of every other alone.     *)
LEMMA StepAlone ==
    ASSUME IInv, NEW t \in Threads, Step(t), ~Quit(t)
    PROVE  Alone(t)
<1>0. /\ pc \in [Threads -> Location] /\ op \in [Threads -> Ops \cup {"supervise", None}]
      /\ target \in [Threads -> Ids \cup {None}] /\ todo \in [Threads -> SUBSET Ids]
      /\ view \in [Threads -> InstanceMap] /\ live \in [Threads -> ContainerMap]
      /\ older \in [Threads -> SUBSET Threads]
  BY DEF IInv, TypeOK, TypeWorld, TypeControl, TypeLocal, TypeHistory
<1> USE DEF podman, saves, passes, locals, history, vars
<1>1. ASSUME Acquire(t) PROVE Alone(t)
  BY <1>0, <1>1 DEF Acquire, Goto, Alone, Location
<1>2. ASSUME Refuse(t) PROVE Alone(t)
  BY <1>0, <1>2 DEF Refuse, Goto, Abort, Finish, Unlock, Unbracket, Alone, Location
<1>3. ASSUME Begin(t) PROVE Alone(t)
  BY <1>0, <1>3 DEF Begin, Goto, Bracket, Bump, Alone, Location
<1>4. ASSUME Start(t) PROVE Alone(t)
  BY <1>0, <1>4 DEF Start, Goto, Transit, Mutate, StartContainer, FoundMissing, PodmanFails,
     Fail, Attempt, Through, Alone, Location
<1>5. ASSUME Stop(t) PROVE Alone(t)
  BY <1>0, <1>5 DEF Stop, Goto, Transit, Mutate, StopContainer, FoundMissing, PodmanFails, Fail,
     Attempt, Through, Alone, Location
<1>6. ASSUME SetRestartPolicy(t) PROVE Alone(t)
  BY <1>0, <1>6 DEF SetRestartPolicy, Goto, Transit, Mutate, Through, Alone, Location
<1>7. ASSUME RestartStop(t) PROVE Alone(t)
  BY <1>0, <1>7 DEF RestartStop, Goto, Transit, Mutate, StopContainer, FoundMissing, Fail,
     Abort, Finish, Unlock, Unbracket, Through, Alone, Location
<1>8. ASSUME RestartStart(t) PROVE Alone(t)
  BY <1>0, <1>8 DEF RestartStart, Goto, Transit, Mutate, StartContainer, Fail, Attempt, Through,
     Alone, Location
<1>9. ASSUME RemoveContainer(t) PROVE Alone(t)
  BY <1>0, <1>9 DEF RemoveContainer, Goto, RemovalFailed, Abort, Finish, Unlock, Unbracket,
     Alone, Location
<1>10. ASSUME RemoveEntry(t) PROVE Alone(t)
  BY <1>0, <1>10 DEF RemoveEntry, Goto, Delete, Attempt, Abort, Finish, Unlock, Unbracket,
     Alone, Location
<1>11. ASSUME CreateAbandon(t) PROVE Alone(t)
  BY <1>0, <1>11 DEF CreateAbandon, Goto, Abort, Finish, Unlock, Unbracket, Alone, Location
<1>12. ASSUME CreateEntry(t) PROVE Alone(t)
  BY <1>0, <1>12 DEF CreateEntry, Goto, Bracket, Bump, Attempt, Alone, Location
<1>13. ASSUME CreateContainer(t) PROVE Alone(t)
  BY <1>0, <1>13 DEF CreateContainer, Goto, Delete, Fail, Alone, Location
<1>14. ASSUME CreateStart(t) PROVE Alone(t)
  BY <1>0, <1>14 DEF CreateStart, Goto, StartContainer, Through, Fail, Alone, Location
<1>15. ASSUME Load(t) PROVE Alone(t)
  BY <1>0, <1>15 DEF Load, Goto, Alone, Location
<1>16. ASSUME ListManaged(t) PROVE Alone(t)
  BY <1>0, <1>16 DEF ListManaged, Goto, Alone, Location
<1>17. ASSUME Commit(t) PROVE Alone(t)
  BY <1>0, <1>17 DEF Commit, Goto, EndRead, AfterPass, Through, Alone, Location
<1>18. ASSUME Discard(t) PROVE Alone(t)
  BY <1>0, <1>18 DEF Discard, Goto, EndRead, AfterPass, Alone, Location
<1>19. ASSUME ListFails(t) PROVE Alone(t)
  BY <1>0, <1>19 DEF ListFails, Goto, EndRead, AfterPass, Alone, Location
<1>20. ASSUME TakeCandidates(t) PROVE Alone(t)
  BY <1>0, <1>20 DEF TakeCandidates, Goto, Alone, Location
<1>21. ASSUME RestoreNext(t) PROVE Alone(t)
  BY <1>0, <1>21 DEF RestoreNext, Goto, Alone, Location
<1>22. ASSUME RestoreDone(t) PROVE Alone(t)
  BY <1>0, <1>22 DEF RestoreDone, Goto, Alone, Location
<1>23. ASSUME SuspendBegin(t) PROVE Alone(t)
  BY <1>0, <1>23 DEF SuspendBegin, Goto, Bracket, Bump, Alone, Location
<1>24. ASSUME SuspendStop(t) PROVE Alone(t)
  BY <1>0, <1>24 DEF SuspendStop, Goto, StopContainer, IfKnown, Alone, Location
<1>25. ASSUME SuspendDone(t) PROVE Alone(t)
  BY <1>0, <1>25 DEF SuspendDone, Goto, Alone, Location
<1>26. ASSUME Snapshot(t) PROVE Alone(t)
  BY <1>0, <1>26 DEF Snapshot, Goto, SaveBump, Bump, Alone, Location
<1>27. ASSUME NEW saved \in BOOLEAN, CreateSaved(t, saved) PROVE Alone(t)
  BY <1>0, <1>27 DEF CreateSaved, Goto, Write, Through, Delete, Fail, Alone, Location
<1>28. ASSUME NEW saved \in BOOLEAN, SaveAndFinish(t, saved) PROVE Alone(t)
  BY <1>0, <1>28 DEF SaveAndFinish, Goto, Write, Through, Finish, Unlock, Unbracket, Settle,
     Alone, Location
<1>29. ASSUME NEW saved \in BOOLEAN, SaveReconciled(t, saved) PROVE Alone(t)
  BY <1>0, <1>29 DEF SaveReconciled, Goto, Write, Through, AfterPass, Alone, Location
<1>30. ASSUME NEW saved \in BOOLEAN, SaveSuspended(t, saved) PROVE Alone(t)
  BY <1>0, <1>30 DEF SaveSuspended, Goto, Write, Through, Alone, Location
<1> QED BY <1>1, <1>2, <1>3, <1>4, <1>5, <1>6, <1>7, <1>8, <1>9, <1>10, <1>11, <1>12, <1>13,
     <1>14, <1>15, <1>16, <1>17, <1>18, <1>19, <1>20, <1>21, <1>22, <1>23, <1>24, <1>25, <1>26,
     <1>27, <1>28, <1>29, <1>30 DEF Step, Transition, Creation, Pass, Restoration, Suspension,
     Saving

LEMMA OwnShape ==
    ASSUME IInv, Shape, NEW t \in Threads, Step(t), ~Quit(t)
    PROVE  ShapeOf(t)'
<1>0. /\ pc \in [Threads -> Location] /\ op \in [Threads -> Ops \cup {"supervise", None}]
      /\ target \in [Threads -> Ids \cup {None}] /\ todo \in [Threads -> SUBSET Ids]
      /\ view \in [Threads -> InstanceMap] /\ live \in [Threads -> ContainerMap]
      /\ older \in [Threads -> SUBSET Threads] /\ saving \subseteq Threads
  BY DEF IInv, TypeOK, TypeWorld, TypeControl, TypeLocal, TypeHistory
<1>a. Alone(t) BY StepAlone
<1>s. ShapeOf(t) BY DEF Shape
<1> USE DEF podman, saves, passes, locals, history, vars
<1>1. ASSUME Acquire(t) PROVE ShapeOf(t)'
  BY <1>0, <1>s, <1>1, ManagerAssumption DEF Acquire, Goto, ShapeOf, Location, SavePoints,
     Transitions, Creations, Passes, Restorers
<1>2. ASSUME Refuse(t) PROVE ShapeOf(t)'
  BY <1>0, <1>s, <1>2, ManagerAssumption DEF Refuse, Goto, Abort, Finish, Unlock, Unbracket,
     ShapeOf, Location, SavePoints, Transitions, Creations, Passes, Restorers
<1>3. ASSUME Begin(t) PROVE ShapeOf(t)'
  BY <1>0, <1>s, <1>3, ManagerAssumption DEF Begin, Goto, Bracket, Bump, ShapeOf, Location,
     SavePoints, Transitions, Creations, Passes, Restorers
<1>4. ASSUME Start(t) PROVE ShapeOf(t)'
  BY <1>0, <1>s, <1>4, ManagerAssumption DEF Start, Goto, Transit, Mutate, StartContainer,
     FoundMissing, PodmanFails, Fail, Attempt, Through, ShapeOf, Location, SavePoints,
     Transitions, Creations, Passes, Restorers
<1>5. ASSUME Stop(t) PROVE ShapeOf(t)'
  BY <1>0, <1>s, <1>5, ManagerAssumption DEF Stop, Goto, Transit, Mutate, StopContainer,
     FoundMissing, PodmanFails, Fail, Attempt, Through, ShapeOf, Location, SavePoints,
     Transitions, Creations, Passes, Restorers
<1>6. ASSUME SetRestartPolicy(t) PROVE ShapeOf(t)'
  BY <1>0, <1>s, <1>6, ManagerAssumption DEF SetRestartPolicy, Goto, Transit, Mutate, Through,
     ShapeOf, Location, SavePoints, Transitions, Creations, Passes, Restorers
<1>7. ASSUME RestartStop(t) PROVE ShapeOf(t)'
  BY <1>0, <1>s, <1>7, ManagerAssumption DEF RestartStop, Goto, Transit, Mutate, StopContainer,
     FoundMissing, Fail, Abort, Finish, Unlock, Unbracket, Through, ShapeOf, Location,
     SavePoints, Transitions, Creations, Passes, Restorers
<1>8. ASSUME RestartStart(t) PROVE ShapeOf(t)'
  BY <1>0, <1>s, <1>8, ManagerAssumption DEF RestartStart, Goto, Transit, Mutate,
     StartContainer, Fail, Attempt, Through, ShapeOf, Location, SavePoints, Transitions,
     Creations, Passes, Restorers
<1>9. ASSUME RemoveContainer(t) PROVE ShapeOf(t)'
  BY <1>0, <1>s, <1>9, ManagerAssumption DEF RemoveContainer, Goto, RemovalFailed, Abort,
     Finish, Unlock, Unbracket, ShapeOf, Location, SavePoints, Transitions, Creations, Passes,
     Restorers
<1>10. ASSUME RemoveEntry(t) PROVE ShapeOf(t)'
  BY <1>0, <1>s, <1>10, ManagerAssumption DEF RemoveEntry, Goto, Delete, Attempt, Abort, Finish,
     Unlock, Unbracket, ShapeOf, Location, SavePoints, Transitions, Creations, Passes, Restorers
<1>11. ASSUME CreateAbandon(t) PROVE ShapeOf(t)'
  BY <1>0, <1>s, <1>11, ManagerAssumption DEF CreateAbandon, Goto, Abort, Finish, Unlock,
     Unbracket, ShapeOf, Location, SavePoints, Transitions, Creations, Passes, Restorers
<1>12. ASSUME CreateEntry(t) PROVE ShapeOf(t)'
  BY <1>0, <1>s, <1>12, ManagerAssumption DEF CreateEntry, Goto, Bracket, Bump, Attempt,
     ShapeOf, Location, SavePoints, Transitions, Creations, Passes, Restorers
<1>13. ASSUME CreateContainer(t) PROVE ShapeOf(t)'
  BY <1>0, <1>s, <1>13, ManagerAssumption DEF CreateContainer, Goto, Delete, Fail, ShapeOf,
     Location, SavePoints, Transitions, Creations, Passes, Restorers
<1>14. ASSUME CreateStart(t) PROVE ShapeOf(t)'
  BY <1>0, <1>s, <1>14, ManagerAssumption DEF CreateStart, Goto, StartContainer, Through, Fail,
     ShapeOf, Location, SavePoints, Transitions, Creations, Passes, Restorers
<1>15. ASSUME Load(t) PROVE ShapeOf(t)'
  BY <1>0, <1>s, <1>15, ManagerAssumption DEF Load, Goto, ShapeOf, Location, SavePoints,
     Transitions, Creations, Passes, Restorers
<1>16. ASSUME ListManaged(t) PROVE ShapeOf(t)'
  BY <1>0, <1>s, <1>16, ManagerAssumption DEF ListManaged, Goto, ShapeOf, Location, SavePoints,
     Transitions, Creations, Passes, Restorers
<1>17. ASSUME Commit(t) PROVE ShapeOf(t)'
  BY <1>0, <1>s, <1>17, ManagerAssumption DEF Commit, Goto, EndRead, AfterPass, Through,
     ShapeOf, Location, SavePoints, Transitions, Creations, Passes, Restorers
<1>18. ASSUME Discard(t) PROVE ShapeOf(t)'
  BY <1>0, <1>s, <1>18, ManagerAssumption DEF Discard, Goto, EndRead, AfterPass, ShapeOf,
     Location, SavePoints, Transitions, Creations, Passes, Restorers
<1>19. ASSUME ListFails(t) PROVE ShapeOf(t)'
  BY <1>0, <1>s, <1>19, ManagerAssumption DEF ListFails, Goto, EndRead, AfterPass, ShapeOf,
     Location, SavePoints, Transitions, Creations, Passes, Restorers
<1>20. ASSUME TakeCandidates(t) PROVE ShapeOf(t)'
  BY <1>0, <1>s, <1>20, ManagerAssumption DEF TakeCandidates, Goto, ShapeOf, Location,
     SavePoints, Transitions, Creations, Passes, Restorers
<1>21. ASSUME RestoreNext(t) PROVE ShapeOf(t)'
  BY <1>0, <1>s, <1>21, ManagerAssumption DEF RestoreNext, Goto, ShapeOf, Location, SavePoints,
     Transitions, Creations, Passes, Restorers
<1>22. ASSUME RestoreDone(t) PROVE ShapeOf(t)'
  BY <1>0, <1>s, <1>22, ManagerAssumption DEF RestoreDone, Goto, ShapeOf, Location, SavePoints,
     Transitions, Creations, Passes, Restorers
<1>23. ASSUME SuspendBegin(t) PROVE ShapeOf(t)'
  BY <1>0, <1>s, <1>23, ManagerAssumption DEF SuspendBegin, Goto, Bracket, Bump, ShapeOf,
     Location, SavePoints, Transitions, Creations, Passes, Restorers
<1>24. ASSUME SuspendStop(t) PROVE ShapeOf(t)'
  BY <1>0, <1>s, <1>24, ManagerAssumption DEF SuspendStop, Goto, StopContainer, IfKnown,
     ShapeOf, Location, SavePoints, Transitions, Creations, Passes, Restorers
<1>25. ASSUME SuspendDone(t) PROVE ShapeOf(t)'
  BY <1>0, <1>s, <1>25, ManagerAssumption DEF SuspendDone, Goto, ShapeOf, Location, SavePoints,
     Transitions, Creations, Passes, Restorers
<1>26. ASSUME Snapshot(t) PROVE ShapeOf(t)'
  BY <1>0, <1>s, <1>26, ManagerAssumption DEF Snapshot, Goto, SaveBump, Bump, ShapeOf, Location,
     SavePoints, Transitions, Creations, Passes, Restorers
<1>27. ASSUME NEW saved \in BOOLEAN, CreateSaved(t, saved) PROVE ShapeOf(t)'
  BY <1>0, <1>s, <1>27, ManagerAssumption DEF CreateSaved, Goto, Write, Through, Delete, Fail,
     ShapeOf, Location, SavePoints, Transitions, Creations, Passes, Restorers
<1>28. ASSUME NEW saved \in BOOLEAN, SaveAndFinish(t, saved) PROVE ShapeOf(t)'
  BY <1>0, <1>s, <1>28, ManagerAssumption DEF SaveAndFinish, Goto, Write, Through, Finish,
     Unlock, Unbracket, Settle, ShapeOf, Location, SavePoints, Transitions, Creations, Passes,
     Restorers
<1>29. ASSUME NEW saved \in BOOLEAN, SaveReconciled(t, saved) PROVE ShapeOf(t)'
  BY <1>0, <1>s, <1>29, ManagerAssumption DEF SaveReconciled, Goto, Write, Through, AfterPass,
     ShapeOf, Location, SavePoints, Transitions, Creations, Passes, Restorers
<1>30. ASSUME NEW saved \in BOOLEAN, SaveSuspended(t, saved) PROVE ShapeOf(t)'
  BY <1>0, <1>s, <1>30, ManagerAssumption DEF SaveSuspended, Goto, Write, Through, ShapeOf,
     Location, SavePoints, Transitions, Creations, Passes, Restorers
<1> QED BY <1>1, <1>2, <1>3, <1>4, <1>5, <1>6, <1>7, <1>8, <1>9, <1>10, <1>11, <1>12, <1>13,
     <1>14, <1>15, <1>16, <1>17, <1>18, <1>19, <1>20, <1>21, <1>22, <1>23, <1>24, <1>25, <1>26,
     <1>27, <1>28, <1>29, <1>30 DEF Step, Transition, Creation, Pass, Restoration, Suspension,
     Saving

(* So does the arrival of a request, the launch and the tick.              *)
LEMMA BeginAlone ==
    ASSUME IInv, NEW t \in Threads,
           \/ \E o \in Ops, i \in Ids : t \in Clients /\ Request(t, o, i)
           \/ t = Supervisor /\ (Launch \/ Tick)
    PROVE  Alone(t)
<1>0. /\ pc \in [Threads -> Location] /\ op \in [Threads -> Ops \cup {"supervise", None}]
      /\ target \in [Threads -> Ids \cup {None}] /\ todo \in [Threads -> SUBSET Ids]
      /\ view \in [Threads -> InstanceMap] /\ live \in [Threads -> ContainerMap]
      /\ older \in [Threads -> SUBSET Threads]
  BY DEF IInv, TypeOK, TypeWorld, TypeControl, TypeLocal, TypeHistory
<1> USE DEF podman, saves, passes, locals, history, vars, Alone, Goto, Location
<1>1. ASSUME NEW o \in Ops, NEW i \in Ids, t \in Clients, Request(t, o, i) PROVE Alone(t)
  BY <1>0, <1>1 DEF Request
<1>2. ASSUME t = Supervisor, Launch \/ Tick PROVE Alone(t)
  BY <1>0, <1>2 DEF Launch, Tick
<1> QED BY <1>1, <1>2

LEMMA ShapeKept ==
    ASSUME IInv, Shape, [Next]_vars
    PROVE  Shape'
<1>0. /\ pc \in [Threads -> Location] /\ op \in [Threads -> Ops \cup {"supervise", None}]
      /\ target \in [Threads -> Ids \cup {None}] /\ todo \in [Threads -> SUBSET Ids]
      /\ view \in [Threads -> InstanceMap] /\ live \in [Threads -> ContainerMap]
      /\ older \in [Threads -> SUBSET Threads] /\ saving \subseteq Threads
  BY DEF IInv, TypeOK, TypeWorld, TypeControl, TypeLocal, TypeHistory
<1>1. ASSUME NEW t \in Threads, Alone(t), ShapeOf(t)' PROVE Shape'
  BY <1>1 DEF Shape, ShapeOf, Alone
<1>2. ASSUME NEW t \in Threads, Step(t), ~Quit(t) PROVE Shape'
  BY <1>1, <1>2, StepAlone, OwnShape
<1>3. ASSUME NEW t \in Clients, NEW o \in Ops, NEW i \in Ids, Request(t, o, i) PROVE Shape'
  <2>1. t \in Threads BY DEF Threads
  <2>2. ShapeOf(t)'
    BY <1>0, <1>3, <2>1, ManagerAssumption DEF Shape, ShapeOf, Request, Goto, SavePoints,
       Transitions, Creations, Passes, Restorers, history, saves
  <2> QED BY <1>1, <1>3, <2>1, <2>2, BeginAlone
<1>4. ASSUME Launch \/ Tick PROVE Shape'
  <2>1. Supervisor \in Threads BY DEF Threads
  <2>2. ShapeOf(Supervisor)'
    BY <1>0, <1>4, <2>1, ManagerAssumption DEF Shape, ShapeOf, Launch, Tick, Goto, SavePoints,
       Restorers, history, saves, IInv, DownIdle
  <2> QED BY <1>1, <1>4, <2>1, <2>2, BeginAlone
<1>5. ASSUME Down PROVE Shape'
  BY <1>5 DEF Shape, ShapeOf, Down
<1>6. ASSUME External \/ UNCHANGED vars PROVE Shape'
  BY <1>6 DEF Shape, ShapeOf, External, podman, saves, passes, locals, history, vars
<1> QED
  BY <1>2, <1>3, <1>4, <1>5, <1>6 DEF Next, Environment, Quit, Crash, BootFails,
     ContainerExits, ContainerRemoved, FileMovedAside

LEMMA StepBusy ==
    ASSUME NEW t \in Threads, Step(t)
    PROVE  pc[t] # "idle"
<1>q. ASSUME Quit(t) PROVE pc[t] # "idle" BY <1>q DEF Quit
<1>1. ASSUME Acquire(t) PROVE pc[t] # "idle"
  BY <1>1 DEF Acquire, Goto, SavePoints
<1>2. ASSUME Refuse(t) PROVE pc[t] # "idle"
  BY <1>2 DEF Refuse, Goto, Abort, Finish, Unlock, Unbracket, SavePoints
<1>3. ASSUME Begin(t) PROVE pc[t] # "idle"
  BY <1>3 DEF Begin, Goto, Bracket, Bump, SavePoints
<1>4. ASSUME Start(t) PROVE pc[t] # "idle"
  BY <1>4 DEF Start, Goto, Transit, Mutate, StartContainer, FoundMissing, PodmanFails, Fail,
     Attempt, Through, SavePoints
<1>5. ASSUME Stop(t) PROVE pc[t] # "idle"
  BY <1>5 DEF Stop, Goto, Transit, Mutate, StopContainer, FoundMissing, PodmanFails, Fail,
     Attempt, Through, SavePoints
<1>6. ASSUME SetRestartPolicy(t) PROVE pc[t] # "idle"
  BY <1>6 DEF SetRestartPolicy, Goto, Transit, Mutate, Through, SavePoints
<1>7. ASSUME RestartStop(t) PROVE pc[t] # "idle"
  BY <1>7 DEF RestartStop, Goto, Transit, Mutate, StopContainer, FoundMissing, Fail, Abort,
     Finish, Unlock, Unbracket, Through, SavePoints
<1>8. ASSUME RestartStart(t) PROVE pc[t] # "idle"
  BY <1>8 DEF RestartStart, Goto, Transit, Mutate, StartContainer, Fail, Attempt, Through,
     SavePoints
<1>9. ASSUME RemoveContainer(t) PROVE pc[t] # "idle"
  BY <1>9 DEF RemoveContainer, Goto, RemovalFailed, Abort, Finish, Unlock, Unbracket, SavePoints
<1>10. ASSUME RemoveEntry(t) PROVE pc[t] # "idle"
  BY <1>10 DEF RemoveEntry, Goto, Delete, Attempt, Abort, Finish, Unlock, Unbracket, SavePoints
<1>11. ASSUME CreateAbandon(t) PROVE pc[t] # "idle"
  BY <1>11 DEF CreateAbandon, Goto, Abort, Finish, Unlock, Unbracket, SavePoints
<1>12. ASSUME CreateEntry(t) PROVE pc[t] # "idle"
  BY <1>12 DEF CreateEntry, Goto, Bracket, Bump, Attempt, SavePoints
<1>13. ASSUME CreateContainer(t) PROVE pc[t] # "idle"
  BY <1>13 DEF CreateContainer, Goto, Delete, Fail, SavePoints
<1>14. ASSUME CreateStart(t) PROVE pc[t] # "idle"
  BY <1>14 DEF CreateStart, Goto, StartContainer, Through, Fail, SavePoints
<1>15. ASSUME Load(t) PROVE pc[t] # "idle"
  BY <1>15 DEF Load, Goto, SavePoints
<1>16. ASSUME ListManaged(t) PROVE pc[t] # "idle"
  BY <1>16 DEF ListManaged, Goto, SavePoints
<1>17. ASSUME Commit(t) PROVE pc[t] # "idle"
  BY <1>17 DEF Commit, Goto, EndRead, AfterPass, Through, SavePoints
<1>18. ASSUME Discard(t) PROVE pc[t] # "idle"
  BY <1>18 DEF Discard, Goto, EndRead, AfterPass, SavePoints
<1>19. ASSUME ListFails(t) PROVE pc[t] # "idle"
  BY <1>19 DEF ListFails, Goto, EndRead, AfterPass, SavePoints
<1>20. ASSUME TakeCandidates(t) PROVE pc[t] # "idle"
  BY <1>20 DEF TakeCandidates, Goto, SavePoints
<1>21. ASSUME RestoreNext(t) PROVE pc[t] # "idle"
  BY <1>21 DEF RestoreNext, Goto, SavePoints
<1>22. ASSUME RestoreDone(t) PROVE pc[t] # "idle"
  BY <1>22 DEF RestoreDone, Goto, SavePoints
<1>23. ASSUME SuspendBegin(t) PROVE pc[t] # "idle"
  BY <1>23 DEF SuspendBegin, Goto, Bracket, Bump, SavePoints
<1>24. ASSUME SuspendStop(t) PROVE pc[t] # "idle"
  BY <1>24 DEF SuspendStop, Goto, StopContainer, IfKnown, SavePoints
<1>25. ASSUME SuspendDone(t) PROVE pc[t] # "idle"
  BY <1>25 DEF SuspendDone, Goto, SavePoints
<1>26. ASSUME Snapshot(t) PROVE pc[t] # "idle"
  BY <1>26 DEF Snapshot, Goto, SaveBump, Bump, SavePoints
<1>27. ASSUME NEW saved \in BOOLEAN, CreateSaved(t, saved) PROVE pc[t] # "idle"
  BY <1>27 DEF CreateSaved, Goto, Write, Through, Delete, Fail, SavePoints
<1>28. ASSUME NEW saved \in BOOLEAN, SaveAndFinish(t, saved) PROVE pc[t] # "idle"
  BY <1>28 DEF SaveAndFinish, Goto, Write, Through, Finish, Unlock, Unbracket, Settle, SavePoints
<1>29. ASSUME NEW saved \in BOOLEAN, SaveReconciled(t, saved) PROVE pc[t] # "idle"
  BY <1>29 DEF SaveReconciled, Goto, Write, Through, AfterPass, SavePoints
<1>30. ASSUME NEW saved \in BOOLEAN, SaveSuspended(t, saved) PROVE pc[t] # "idle"
  BY <1>30 DEF SaveSuspended, Goto, Write, Through, SavePoints
<1> QED BY <1>q, <1>1, <1>2, <1>3, <1>4, <1>5, <1>6, <1>7, <1>8, <1>9, <1>10, <1>11, <1>12,
     <1>13, <1>14, <1>15, <1>16, <1>17, <1>18, <1>19, <1>20, <1>21, <1>22, <1>23, <1>24, <1>25,
     <1>26, <1>27, <1>28, <1>29, <1>30 DEF Step, Transition, Creation, Pass, Restoration,
     Suspension, Saving

LEMMA BootStep ==
    ASSUME IInv, Boot, NEW t \in Threads, Step(t), ~Quit(t)
    PROVE  Boot'
<1>0. /\ pc \in [Threads -> Location] /\ op \in [Threads -> Ops \cup {"supervise", None}]
      /\ target \in [Threads -> Ids \cup {None}] /\ todo \in [Threads -> SUBSET Ids]
      /\ view \in [Threads -> InstanceMap] /\ live \in [Threads -> ContainerMap]
      /\ older \in [Threads -> SUBSET Threads] /\ moved \subseteq Threads
  BY DEF IInv, TypeOK, TypeWorld, TypeControl, TypeLocal, TypeHistory
<1>a. Alone(t) BY StepAlone
<1>b. pc[t] # "idle" BY StepBusy
<1>c. phase = "boot" => t = Supervisor /\ \A u \in Threads : u # t => pc[u] = "idle"
  BY <1>b DEF Boot, Threads
<1>d. Supervisor \notin Clients BY ManagerAssumption
<1>e. (phase' = "boot" => phase = "boot") => (phase' = "boot" => \A u \in Clients : pc'[u] = "idle")
  BY <1>a, <1>c, <1>d DEF Alone, Threads
<1>f. phase # "up" => phase = "boot"
  BY <1>b DEF IInv, DownIdle, TypeOK, TypeControl
<1>g. phase = "boot" /\ pc[t] \notin Reconciling => {u \in Threads : pc[u] \in Reconciling} = {}
  BY <1>c DEF Reconciling
<1> USE DEF podman, saves, passes, locals, history, vars
<1>1. ASSUME Acquire(t) PROVE Boot'
  BY <1>0, <1>c, <1>e, <1>f, <1>g, <1>1 DEF Acquire, Goto, Boot, Threads, Reconciling, Location,
     SavePoints, Restorers
<1>2. ASSUME Refuse(t) PROVE Boot'
  BY <1>0, <1>c, <1>e, <1>f, <1>g, <1>2 DEF Refuse, Goto, Abort, Finish, Unlock, Unbracket,
     Boot, Threads, Reconciling, Location, SavePoints, Restorers
<1>3. ASSUME Begin(t) PROVE Boot'
  BY <1>0, <1>c, <1>e, <1>f, <1>g, <1>3 DEF Begin, Goto, Bracket, Bump, Boot, Threads,
     Reconciling, SavePoints
<1>4. ASSUME Start(t) PROVE Boot'
  BY <1>0, <1>c, <1>e, <1>f, <1>g, <1>4 DEF Start, Goto, Transit, Mutate, StartContainer,
     FoundMissing, PodmanFails, Fail, Attempt, Through, Boot, Threads, Reconciling, Location,
     SavePoints, Restorers
<1>5. ASSUME Stop(t) PROVE Boot'
  BY <1>0, <1>c, <1>e, <1>f, <1>g, <1>5 DEF Stop, Goto, Transit, Mutate, StopContainer,
     FoundMissing, PodmanFails, Fail, Attempt, Through, Boot, Threads, Reconciling, Location,
     SavePoints, Restorers
<1>6. ASSUME SetRestartPolicy(t) PROVE Boot'
  BY <1>0, <1>c, <1>e, <1>f, <1>g, <1>6 DEF SetRestartPolicy, Goto, Transit, Mutate, Through,
     Boot, Threads, Reconciling, Location, SavePoints, Restorers
<1>7. ASSUME RestartStop(t) PROVE Boot'
  BY <1>0, <1>c, <1>e, <1>f, <1>g, <1>7 DEF RestartStop, Goto, Transit, Mutate, StopContainer,
     FoundMissing, Fail, Abort, Finish, Unlock, Unbracket, Through, Boot, Threads, Reconciling,
     Location, SavePoints, Restorers
<1>8. ASSUME RestartStart(t) PROVE Boot'
  BY <1>0, <1>c, <1>e, <1>f, <1>g, <1>8 DEF RestartStart, Goto, Transit, Mutate, StartContainer,
     Fail, Attempt, Through, Boot, Threads, Reconciling, Location, SavePoints, Restorers
<1>9. ASSUME RemoveContainer(t) PROVE Boot'
  BY <1>0, <1>c, <1>e, <1>f, <1>g, <1>9 DEF RemoveContainer, Goto, RemovalFailed, Abort, Finish,
     Unlock, Unbracket, Boot, Threads, Reconciling, Location, SavePoints, Restorers
<1>10. ASSUME RemoveEntry(t) PROVE Boot'
  BY <1>0, <1>c, <1>e, <1>f, <1>g, <1>10 DEF RemoveEntry, Goto, Delete, Attempt, Abort, Finish,
     Unlock, Unbracket, Boot, Threads, Reconciling, Location, SavePoints, Restorers
<1>11. ASSUME CreateAbandon(t) PROVE Boot'
  BY <1>0, <1>c, <1>e, <1>f, <1>g, <1>11 DEF CreateAbandon, Goto, Abort, Finish, Unlock,
     Unbracket, Boot, Threads, Reconciling, Location, SavePoints, Restorers
<1>12. ASSUME CreateEntry(t) PROVE Boot'
  BY <1>0, <1>c, <1>e, <1>f, <1>g, <1>12 DEF CreateEntry, Goto, Bracket, Bump, Boot, Threads,
     Reconciling, SavePoints
<1>13. ASSUME CreateContainer(t) PROVE Boot'
  BY <1>0, <1>c, <1>e, <1>f, <1>g, <1>13 DEF CreateContainer, Goto, Delete, Fail, Boot, Threads,
     Reconciling, Location, SavePoints, Restorers
<1>14. ASSUME CreateStart(t) PROVE Boot'
  BY <1>0, <1>c, <1>e, <1>f, <1>g, <1>14 DEF CreateStart, Goto, StartContainer, Through, Fail,
     Boot, Threads, Reconciling, Location, SavePoints, Restorers
<1>15. ASSUME Load(t) PROVE Boot'
  BY <1>0, <1>c, <1>e, <1>f, <1>g, <1>15 DEF Load, Goto, Boot, Threads, Reconciling, Location,
     SavePoints, Restorers
<1>16. ASSUME ListManaged(t) PROVE Boot'
  BY <1>0, <1>c, <1>e, <1>f, <1>g, <1>16 DEF ListManaged, Goto, Boot, Threads, Reconciling,
     Location, SavePoints, Restorers
<1>17. ASSUME Commit(t) PROVE Boot'
  BY <1>0, <1>c, <1>e, <1>f, <1>g, <1>17 DEF Commit, Goto, EndRead, AfterPass, Through, Boot,
     Threads, Reconciling, Location, SavePoints, Restorers
<1>18. ASSUME Discard(t) PROVE Boot'
  BY <1>0, <1>c, <1>e, <1>f, <1>g, <1>18 DEF Discard, Goto, EndRead, AfterPass, Boot, Threads,
     Reconciling, Location, SavePoints, Restorers
<1>19. ASSUME ListFails(t) PROVE Boot'
  BY <1>0, <1>c, <1>e, <1>f, <1>g, <1>19 DEF ListFails, Goto, EndRead, AfterPass, Boot, Threads,
     Reconciling, Location, SavePoints, Restorers
<1>20. ASSUME TakeCandidates(t) PROVE Boot'
  BY <1>0, <1>c, <1>e, <1>f, <1>g, <1>20 DEF TakeCandidates, Goto, Boot, Threads, Reconciling,
     Location, SavePoints, Restorers
<1>21. ASSUME RestoreNext(t) PROVE Boot'
  BY <1>0, <1>c, <1>e, <1>f, <1>g, <1>21 DEF RestoreNext, Goto, Boot, Threads, Reconciling,
     Location, SavePoints, Restorers
<1>22. ASSUME RestoreDone(t) PROVE Boot'
  BY <1>0, <1>c, <1>e, <1>f, <1>g, <1>22 DEF RestoreDone, Goto, Boot, Threads, Reconciling,
     Location, SavePoints, Restorers
<1>23. ASSUME SuspendBegin(t) PROVE Boot'
  BY <1>0, <1>c, <1>e, <1>f, <1>g, <1>23 DEF SuspendBegin, Goto, Bracket, Bump, Boot, Threads,
     Reconciling, SavePoints
<1>24. ASSUME SuspendStop(t) PROVE Boot'
  BY <1>0, <1>c, <1>e, <1>f, <1>g, <1>24 DEF SuspendStop, Goto, StopContainer, IfKnown, Boot,
     Threads, Reconciling, Location, SavePoints, Restorers
<1>25. ASSUME SuspendDone(t) PROVE Boot'
  BY <1>0, <1>c, <1>e, <1>f, <1>g, <1>25 DEF SuspendDone, Goto, Boot, Threads, Reconciling,
     Location, SavePoints, Restorers
<1>26. ASSUME Snapshot(t) PROVE Boot'
  BY <1>0, <1>c, <1>e, <1>f, <1>g, <1>26 DEF Snapshot, Goto, SaveBump, Bump, Boot, Threads,
     Reconciling, SavePoints
<1>27. ASSUME NEW saved \in BOOLEAN, CreateSaved(t, saved) PROVE Boot'
  BY <1>0, <1>c, <1>e, <1>f, <1>g, <1>27 DEF CreateSaved, Goto, Write, Through, Delete, Fail,
     Boot, Threads, Reconciling, Location, SavePoints, Restorers
<1>28. ASSUME NEW saved \in BOOLEAN, SaveAndFinish(t, saved) PROVE Boot'
  BY <1>0, <1>c, <1>e, <1>f, <1>g, <1>28 DEF SaveAndFinish, Goto, Write, Through, Finish,
     Unlock, Unbracket, Settle, Boot, Threads, Reconciling, Location, SavePoints, Restorers
<1>29. ASSUME NEW saved \in BOOLEAN, SaveReconciled(t, saved) PROVE Boot'
  BY <1>0, <1>c, <1>e, <1>f, <1>g, <1>29 DEF SaveReconciled, Goto, Write, Through, AfterPass,
     Boot, Threads, Reconciling, Location, SavePoints, Restorers
<1>30. ASSUME NEW saved \in BOOLEAN, SaveSuspended(t, saved) PROVE Boot'
  BY <1>0, <1>c, <1>e, <1>f, <1>g, <1>30 DEF SaveSuspended, Goto, Write, Through, Boot, Threads,
     Reconciling, Location, SavePoints, Restorers
<1> QED BY <1>1, <1>2, <1>3, <1>4, <1>5, <1>6, <1>7, <1>8, <1>9, <1>10, <1>11, <1>12, <1>13,
     <1>14, <1>15, <1>16, <1>17, <1>18, <1>19, <1>20, <1>21, <1>22, <1>23, <1>24, <1>25, <1>26,
     <1>27, <1>28, <1>29, <1>30 DEF Step, Transition, Creation, Pass, Restoration, Suspension,
     Saving

LEMMA BootKept ==
    ASSUME IInv, Boot, [Next]_vars
    PROVE  Boot'
<1>0. /\ pc \in [Threads -> Location] /\ op \in [Threads -> Ops \cup {"supervise", None}]
      /\ target \in [Threads -> Ids \cup {None}] /\ todo \in [Threads -> SUBSET Ids]
      /\ view \in [Threads -> InstanceMap] /\ live \in [Threads -> ContainerMap]
      /\ older \in [Threads -> SUBSET Threads]
  BY DEF IInv, TypeOK, TypeWorld, TypeControl, TypeLocal, TypeHistory
<1>2. ASSUME NEW t \in Threads, Step(t), ~Quit(t) PROVE Boot'
  BY <1>2, BootStep
<1>3. ASSUME NEW t \in Clients, NEW o \in Ops, NEW i \in Ids, Request(t, o, i) PROVE Boot'
  BY <1>3 DEF Request, Boot
<1>4. ASSUME Launch \/ Tick PROVE Boot'
  BY <1>0, <1>4, ManagerAssumption DEF Launch, Tick, Boot, Goto, IInv, DownIdle, Threads
<1>5. ASSUME Down PROVE Boot'
  BY <1>5 DEF Boot, Down
<1>6. ASSUME External \/ UNCHANGED vars PROVE Boot'
  BY <1>6 DEF Boot, External, podman, saves, passes, locals, history, vars
<1> QED
  BY <1>2, <1>3, <1>4, <1>5, <1>6 DEF Next, Environment, Quit, Crash, BootFails,
     ContainerExits, ContainerRemoved, FileMovedAside

-----------------------------------------------------------------------------
(* Containers and their data                                               *)

(* Two threads that hold a mutex work on two ids.                          *)
LEMMA Excludes ==
    ASSUME IInv, NEW t \in Threads, NEW u \in Threads, t # u,
           pc[t] \in Locked, pc[u] \in Locked
    PROVE  target[t] # target[u] /\ target[t] \in Ids
BY DEF IInv, LocksHeld

(* What a start and a stop do to the containers.                           *)
LEMMA ContainerRuns ==
    ASSUME container \in ContainerMap, NEW i \in Ids, container[i] # None, StartContainer(i)
    PROVE  Up(container'[i]) /\ \A j \in Ids \ {i} : container'[j] = container[j]
<1>1. container[i] \in Container BY DEF ContainerMap
<1>2. container' = [container EXCEPT ![i] = [container[i] EXCEPT !.state = "running", !.exit = 0]]
  BY DEF StartContainer
<1>3. \A j \in Ids : container'[j] =
         IF j = i THEN [container[i] EXCEPT !.state = "running", !.exit = 0]
                  ELSE container[j]
  BY <1>2 DEF ContainerMap
<1>4. ASSUME NEW d \in Container
      PROVE  /\ [d EXCEPT !.state = "running", !.exit = 0] \in Container
             /\ [d EXCEPT !.state = "running", !.exit = 0].state = "running"
  BY DEF Container, ExitCode
<1> QED BY <1>1, <1>3, <1>4, NoneAssumption DEF Up

LEMMA ContainerHalts ==
    ASSUME container \in ContainerMap, NEW i \in Ids, container[i] # None, StopContainer(i)
    PROVE  /\ container'[i] # None /\ ~Up(container'[i])
           /\ \A j \in Ids \ {i} : container'[j] = container[j]
<1>1. container[i] \in Container BY DEF ContainerMap
<1>2. PICK e \in ExitCode :
         container' = [container EXCEPT ![i] =
            [container[i] EXCEPT !.state = "stopped", !.exit = e]]
  BY DEF StopContainer
<1>3. \A j \in Ids : container'[j] =
         IF j = i THEN [container[i] EXCEPT !.state = "stopped", !.exit = e]
                  ELSE container[j]
  BY <1>2 DEF ContainerMap
<1>4. ASSUME NEW d \in Container
      PROVE  /\ [d EXCEPT !.state = "stopped", !.exit = e] \in Container
             /\ [d EXCEPT !.state = "stopped", !.exit = e].state = "stopped"
  BY DEF Container, ExitCode
<1> QED BY <1>1, <1>3, <1>4, NoneAssumption DEF Up

(* A step makes a container only with its data, in the one place that      *)
(* does.                                                                   *)
Grows(t) ==
    /\ \A j \in Ids : container'[j] # None =>
          container[j] # None \/ (pc[t] = "recorded" /\ j = target[t] /\ j \in data')
    /\ \A j \in data : j \in data' \/ (pc[t] = "removed" /\ j = target[t])
    /\ pc'[t] = "removed" => container'[target'[t]] = None

LEMMA StepGrows ==
    ASSUME IInv, NEW t \in Threads, Step(t), ~Quit(t)
    PROVE  Grows(t)
<1>0. /\ pc \in [Threads -> Location] /\ op \in [Threads -> Ops \cup {"supervise", None}]
      /\ target \in [Threads -> Ids \cup {None}] /\ todo \in [Threads -> SUBSET Ids]
      /\ view \in [Threads -> InstanceMap] /\ live \in [Threads -> ContainerMap]
      /\ older \in [Threads -> SUBSET Threads]
      /\ container \in ContainerMap /\ data \subseteq Ids
      /\ ContainerMap = [Ids -> Container \cup {None}]
      /\ (pc[t] \in Locked => target[t] \in Ids) /\ None \notin Container
  BY NoneAssumption DEF IInv, TypeOK, TypeWorld, TypeControl, TypeLocal, TypeHistory, LocksHeld,
     ContainerMap
<1> USE DEF podman, saves, passes, locals, history, vars, Grows, Locked
<1>1. ASSUME Acquire(t) PROVE Grows(t)
  BY <1>0, <1>1 DEF Acquire, Goto, Grows, Locked, Container
<1>2. ASSUME Refuse(t) PROVE Grows(t)
  BY <1>0, <1>2 DEF Refuse, Goto, Abort, Finish, Unlock, Unbracket, Grows, Locked, Container
<1>3. ASSUME Begin(t) PROVE Grows(t)
  BY <1>0, <1>3 DEF Begin, Goto, Bracket, Bump, Grows, Locked, Container
<1>4. ASSUME Start(t) PROVE Grows(t)
  BY <1>0, <1>4 DEF Start, Goto, Transit, Mutate, StartContainer, FoundMissing, PodmanFails,
     Fail, Attempt, Through, Grows, Locked, Container
<1>5. ASSUME Stop(t) PROVE Grows(t)
  BY <1>0, <1>5 DEF Stop, Goto, Transit, Mutate, StopContainer, FoundMissing, PodmanFails, Fail,
     Attempt, Through, Grows, Locked, Container
<1>6. ASSUME SetRestartPolicy(t) PROVE Grows(t)
  BY <1>0, <1>6 DEF SetRestartPolicy, Goto, Transit, Mutate, Through, Grows, Locked, Container
<1>7. ASSUME RestartStop(t) PROVE Grows(t)
  <2>1. CASE /\ container[target[t]] # None /\ StopContainer(target[t]) /\ Goto(t, "halfway")
             /\ data' = data
    <3>1. target[t] \in Ids /\ pc'[t] = "halfway"
      BY <1>0, <2>1, <1>7 DEF RestartStop, Goto
    <3>2. \A j \in Ids : container'[j] # None => container[j] # None
      BY <1>0, <2>1, <3>1, ContainerHalts
    <3> QED BY <2>1, <3>1, <3>2
  <2>2. CASE FoundMissing(t) \/ Abort(t)
    BY <1>0, <2>2, <1>7 DEF RestartStop, Goto, FoundMissing, Transit, Abort, Finish, Locked
  <2> QED BY <2>1, <2>2, <1>7 DEF RestartStop
<1>8. ASSUME RestartStart(t) PROVE Grows(t)
  BY <1>0, <1>8 DEF RestartStart, Goto, Transit, Mutate, StartContainer, Fail, Attempt, Through,
     Grows, Locked, Container
<1>9. ASSUME RemoveContainer(t) PROVE Grows(t)
  BY <1>0, <1>9 DEF RemoveContainer, Goto, RemovalFailed, Abort, Finish, Unlock, Unbracket,
     Grows, Locked, Container
<1>10. ASSUME RemoveEntry(t) PROVE Grows(t)
  BY <1>0, <1>10 DEF RemoveEntry, Goto, Delete, Attempt, Abort, Finish, Unlock, Unbracket,
     Grows, Locked, Container
<1>11. ASSUME CreateAbandon(t) PROVE Grows(t)
  BY <1>0, <1>11 DEF CreateAbandon, Goto, Abort, Finish, Unlock, Unbracket, Grows, Locked, Container
<1>12. ASSUME CreateEntry(t) PROVE Grows(t)
  BY <1>0, <1>12 DEF CreateEntry, Goto, Bracket, Bump, Attempt, Grows, Locked, Container
<1>13. ASSUME CreateContainer(t) PROVE Grows(t)
  BY <1>0, <1>13 DEF CreateContainer, Goto, Delete, Fail, Grows, Locked, Container
<1>14. ASSUME CreateStart(t) PROVE Grows(t)
  BY <1>0, <1>14 DEF CreateStart, Goto, StartContainer, Through, Fail, Grows, Locked, Container
<1>15. ASSUME Load(t) PROVE Grows(t)
  BY <1>0, <1>15 DEF Load, Goto, Grows, Locked, Container
<1>16. ASSUME ListManaged(t) PROVE Grows(t)
  BY <1>0, <1>16 DEF ListManaged, Goto, Grows, Locked, Container
<1>17. ASSUME Commit(t) PROVE Grows(t)
  BY <1>0, <1>17 DEF Commit, Goto, EndRead, AfterPass, Through, Grows, Locked, Container
<1>18. ASSUME Discard(t) PROVE Grows(t)
  BY <1>0, <1>18 DEF Discard, Goto, EndRead, AfterPass, Grows, Locked, Container
<1>19. ASSUME ListFails(t) PROVE Grows(t)
  BY <1>0, <1>19 DEF ListFails, Goto, EndRead, AfterPass, Grows, Locked, Container
<1>20. ASSUME TakeCandidates(t) PROVE Grows(t)
  BY <1>0, <1>20 DEF TakeCandidates, Goto, Grows, Locked, Container
<1>21. ASSUME RestoreNext(t) PROVE Grows(t)
  BY <1>0, <1>21 DEF RestoreNext, Goto, Grows, Locked, Container
<1>22. ASSUME RestoreDone(t) PROVE Grows(t)
  BY <1>0, <1>22 DEF RestoreDone, Goto, Grows, Locked, Container
<1>23. ASSUME SuspendBegin(t) PROVE Grows(t)
  BY <1>0, <1>23 DEF SuspendBegin, Goto, Bracket, Bump, Grows, Locked, Container
<1>24. ASSUME SuspendStop(t) PROVE Grows(t)
  BY <1>0, <1>24 DEF SuspendStop, Goto, StopContainer, IfKnown, Grows, Locked, Container
<1>25. ASSUME SuspendDone(t) PROVE Grows(t)
  BY <1>0, <1>25 DEF SuspendDone, Goto, Grows, Locked, Container
<1>26. ASSUME Snapshot(t) PROVE Grows(t)
  BY <1>0, <1>26 DEF Snapshot, SavePoints
<1>27. ASSUME NEW saved \in BOOLEAN, CreateSaved(t, saved) PROVE Grows(t)
  BY <1>0, <1>27 DEF CreateSaved, Goto, Write, Through, Delete, Fail, Grows, Locked, Container
<1>28. ASSUME NEW saved \in BOOLEAN, SaveAndFinish(t, saved) PROVE Grows(t)
  BY <1>0, <1>28 DEF SaveAndFinish, Goto, Write, Through, Finish, Unlock, Unbracket, Settle,
     Grows, Locked, Container
<1>29. ASSUME NEW saved \in BOOLEAN, SaveReconciled(t, saved) PROVE Grows(t)
  BY <1>0, <1>29 DEF SaveReconciled, Goto, Write, Through, AfterPass, Grows, Locked, Container
<1>30. ASSUME NEW saved \in BOOLEAN, SaveSuspended(t, saved) PROVE Grows(t)
  BY <1>0, <1>30 DEF SaveSuspended, Goto, Write, Through, Grows, Locked, Container
<1> QED BY <1>1, <1>2, <1>3, <1>4, <1>5, <1>6, <1>7, <1>8, <1>9, <1>10, <1>11, <1>12, <1>13,
     <1>14, <1>15, <1>16, <1>17, <1>18, <1>19, <1>20, <1>21, <1>22, <1>23, <1>24, <1>25, <1>26,
     <1>27, <1>28, <1>29, <1>30 DEF Step, Transition, Creation, Pass, Restoration, Suspension,
     Saving

LEMMA DataKept ==
    ASSUME IInv, Removing, DataUnderContainer, [Next]_vars
    PROVE  Removing' /\ DataUnderContainer'
<1>0. /\ pc \in [Threads -> Location] /\ op \in [Threads -> Ops \cup {"supervise", None}]
      /\ target \in [Threads -> Ids \cup {None}] /\ todo \in [Threads -> SUBSET Ids]
      /\ view \in [Threads -> InstanceMap] /\ live \in [Threads -> ContainerMap]
      /\ older \in [Threads -> SUBSET Threads]
      /\ container \in ContainerMap /\ data \subseteq Ids
      /\ ContainerMap = [Ids -> Container \cup {None}]
      /\ None \notin Container
  BY NoneAssumption DEF IInv, TypeOK, TypeWorld, TypeControl, TypeLocal, TypeHistory, LocksHeld,
     ContainerMap
<1>2. ASSUME NEW t \in Threads, Step(t), ~Quit(t) PROVE Removing' /\ DataUnderContainer'
  <2>1. Alone(t) /\ Grows(t)
    BY <1>2, StepAlone, StepGrows
  <2>2. \A u \in Threads : u # t /\ pc[u] = "removed" =>
           target[u] \in Ids /\ (pc[t] = "recorded" => target[u] # target[t])
    BY Excludes DEF Locked, IInv, LocksHeld
  <2>3. Removing'
    BY <2>1, <2>2 DEF Removing, Alone, Grows
  <2>4. DataUnderContainer'
    BY <2>1 DEF Removing, DataUnderContainer, Grows
  <2> QED BY <2>3, <2>4
<1>3. ASSUME NEW t \in Clients, NEW o \in Ops, NEW i \in Ids, Request(t, o, i)
      PROVE Removing' /\ DataUnderContainer'
  BY <1>0, <1>3 DEF Request, Goto, Removing, DataUnderContainer, podman, Threads
<1>4. ASSUME Launch \/ Tick PROVE Removing' /\ DataUnderContainer'
  BY <1>0, <1>4 DEF Launch, Tick, Goto, Removing, DataUnderContainer, podman, Threads
<1>5. ASSUME Down PROVE Removing' /\ DataUnderContainer'
  BY <1>5 DEF Down, Removing, DataUnderContainer, podman
<1>6. ASSUME NEW i \in Ids, ContainerExits(i) \/ ContainerRemoved(i)
      PROVE Removing' /\ DataUnderContainer'
  BY <1>0, <1>6 DEF ContainerExits, ContainerRemoved, StopContainer, External, Removing,
     DataUnderContainer, locals, IInv, LocksHeld, Locked, Container
<1>7. ASSUME FileMovedAside \/ UNCHANGED vars PROVE Removing' /\ DataUnderContainer'
  BY <1>7 DEF FileMovedAside, External, Removing, DataUnderContainer, podman, saves, passes,
     locals, history, vars
<1> QED
  BY <1>2, <1>3, <1>4, <1>5, <1>6, <1>7 DEF Next, Environment, Quit, Crash, BootFails

-----------------------------------------------------------------------------
(* What a step does                                                        *)

Calm == UNCHANGED <<file, asked, saving, older>>

LeavesRest(i) ==
    /\ \A j \in Ids \ {i} : container'[j] = container[j] /\ instances'[j] = instances[j]
    /\ \A j \in Ids \ {i} : asked'[j] = asked[j]
    /\ asked[i] \subseteq asked'[i]

(* A request at work on its id.                                            *)
Acts(t, l) ==
    /\ Alone(t) /\ Ready /\ t \notin saving /\ target[t] \in Ids
    /\ pc[t] \in Locked \ SavePoints /\ (pc[t] = "created" => l = "dirty")
    /\ pc'[t] = l /\ op'[t] = op[t] /\ target'[t] = target[t]
    /\ \A u \in Threads \ {t} : pc[u] \in Locked => target[u] # target[t]
    /\ LeavesRest(target[t])
    /\ UNCHANGED <<phase, file, view, saving, older>>

(* A thread moves on, and no record, container or save is touched.         *)
Walks(t) ==
    /\ Alone(t) /\ t \notin saving
    /\ UNCHANGED <<container, file, instances, asked, saving, older>>
    /\ Ready' => Ready
    /\ pc'[t] \in {"idle", "wait", "locked", "begun", "pulling", "dirty", "load", "loaded",
                   "listed", "restore", "restoring", "suspend", "suspending", "suspended"}
    /\ pc'[t] = "pulling" => Ready /\ target'[t] \in Ids /\ instances[target'[t]] = None
    /\ pc'[t] = "dirty" => t \in failed'
    /\ pc'[t] = "loaded" => view'[t] = file /\ (t \notin behind' => saving = {})
    /\ pc'[t] = "listed" => /\ pc[t] = "loaded" /\ view'[t] = view[t] /\ live'[t] = container
                            /\ (t \in moved' \cup behind') <=> (t \in moved \cup behind)
    /\ pc'[t] = "suspending" => Ready /\ todo'[t] = RunningIds
    /\ pc'[t] = "suspended" => pc[t] = "suspending" /\ todo[t] = {}
    /\ pc[t] \in {"created", "dirty"} => pc'[t] = "dirty"
    /\ pc[t] \in Owing => pc'[t] \in Owing

Starts(t) ==
    /\ Acts(t, "dirty") /\ ~ShuttingDown
    /\ op[t] \in Intentional => Intent(op[t]) = "running"
    /\ container[target[t]] # None /\ Up(container'[target[t]])
    /\ instances'[target[t]] # None /\ instances'[target[t]].status = "running"
    /\ instances'[target[t]].desired = "running" /\ "running" \in asked'[target[t]]

Halts(t) ==
    /\ Acts(t, "dirty") /\ op[t] = "stop"
    /\ container[target[t]] # None /\ ~Up(container'[target[t]])
    /\ instances[target[t]] # None /\ instances'[target[t]] # None
    /\ instances'[target[t]].status = "stopped"
    /\ instances'[target[t]].desired = "stopped" /\ "stopped" \in asked'[target[t]]

(* The first half of a restart.                                            *)
Pauses(t) ==
    /\ Acts(t, "halfway") /\ UNCHANGED <<instances, asked>>
    /\ container[target[t]] # None /\ ~Up(container'[target[t]])

(* A change that leaves the intent alone: a policy, or a failure.          *)
Edits(t) ==
    /\ Acts(t, "dirty") /\ UNCHANGED <<container, asked>>
    /\ instances[target[t]] # None /\ instances'[target[t]] # None
    /\ instances'[target[t]].desired = instances[target[t]].desired
    /\ Creating(instances'[target[t]]) => Creating(instances[target[t]])
    /\ Up(container[target[t]]) => instances'[target[t]].status = instances[target[t]].status
    /\ op[t] \in Intentional => t \in failed'

Unmakes(t) ==
    /\ Acts(t, "removed") /\ UNCHANGED <<instances, asked>>
    /\ container'[target[t]] = None

Removes(t) ==
    /\ Acts(t, "dirty") /\ pc[t] = "removed" /\ op[t] = "remove" /\ container' = container
    /\ instances'[target[t]] = None /\ "gone" \in asked'[target[t]]

Enters(t) ==
    /\ Acts(t, "entered") /\ pc[t] = "pulling" /\ container' = container
    /\ instances'[target[t]] # None
    /\ instances'[target[t]].status = "creating"
    /\ instances'[target[t]].desired = Intent(op[t]) /\ Intent(op[t]) \in asked'[target[t]]

Makes(t) ==
    /\ \E l \in {"created", "dirty"} : Acts(t, l)
    /\ pc[t] = "recorded" /\ asked' = asked
    /\ container[target[t]] = None /\ ~Up(container'[target[t]])
    /\ instances[target[t]] # None /\ instances'[target[t]] # None
    /\ instances'[target[t]].status = "stopped"
    /\ Lasting(instances'[target[t]]) = Lasting(instances[target[t]])
    /\ pc'[t] = "dirty" => op[t] # "create"

Unwinds(t) ==
    /\ Acts(t, "rollback") /\ pc[t] = "recorded" /\ UNCHANGED <<container, asked>>
    /\ instances'[target[t]] = None

(* The file is replaced or the disk has failed.                            *)
Replaces(t, saved) ==
    /\ Alone(t) /\ Ready /\ t \in saving /\ t \notin saving' /\ UNCHANGED <<container, phase>>
    /\ \A u \in Threads \ {t} : older'[u] = older[u] \ {t}
    /\ IF saved THEN file' = view[t] /\ older[t] = {}
                ELSE file' = file /\ "disk" \in Faults

Registers(t) ==
    /\ Replaces(t, TRUE) /\ UNCHANGED <<instances, asked>>
    /\ pc[t] = "entered" /\ pc'[t] = "recorded" /\ op'[t] = op[t] /\ target'[t] = target[t]

Retracts(t) ==
    /\ Replaces(t, FALSE) /\ asked' = asked
    /\ pc[t] = "entered" /\ pc'[t] = "rollback" /\ op'[t] = op[t] /\ target'[t] = target[t]
    /\ instances'[target[t]] = None
    /\ \A j \in Ids \ {target[t]} : instances'[j] = instances[j]

Ends(t, saved) ==
    /\ Replaces(t, saved) /\ UNCHANGED instances
    /\ pc[t] \in {"dirty", "rollback"} /\ pc'[t] \in {"idle", "restoring"}
    /\ IF saved /\ op[t] \in Intentional /\ (pc[t] = "rollback" \/ t \notin failed)
       THEN Settle(t, IF pc[t] = "rollback" THEN "gone" ELSE Intent(op[t]))
       ELSE asked' = asked

Flushes(t, saved) ==
    /\ Replaces(t, saved) /\ UNCHANGED <<instances, asked>>
    /\ \/ pc[t] = "drifted" /\ pc'[t] \in {"idle", "restore", "suspend"}
       \/ pc[t] = "suspended" /\ pc'[t] = "quit"

(* The first half of a save.                                               *)
Snaps(t) ==
    /\ Alone(t) /\ Ready /\ t \notin saving /\ pc[t] \in SavePoints
    /\ view'[t] = instances /\ saving' = saving \cup {t} /\ older'[t] = saving
    /\ \A u \in Threads \ {t} : older'[u] = older[u]
    /\ \A u \in Threads : pc[u] \in Reconciling => u \in moved'
    /\ UNCHANGED <<container, file, phase, instances, asked, pc, op, target, todo, failed>>

(* The view of a pass replaces the map.                                    *)
Commits(t) ==
    /\ Alone(t) /\ t \notin saving /\ Eligible(t)
    /\ \A u \in Threads : pc[u] \notin Bracketed
    /\ instances' = [i \in Ids |-> Reconciled(view[t][i], live[t][i])]
    /\ pc[t] = "listed" /\ pc'[t] \in {"drifted", "idle", "restore", "suspend"}
    /\ pc'[t] # "drifted" => \A i \in Ids : ~Drifted(view[t][i], live[t][i])
    /\ UNCHANGED <<container, phase>> /\ Calm

(* A shutdown stops one instance.                                          *)
Sheds(t, i) ==
    /\ Alone(t) /\ Ready /\ t \notin saving /\ pc[t] = "suspending" /\ pc'[t] = "suspending"
    /\ todo'[t] = todo[t] \ {i}
    /\ \A u \in Threads : pc[u] \in Locked => target[u] # i
    /\ \A j \in Ids \ {i} : container'[j] = container[j] /\ instances'[j] = instances[j]
    /\ (container'[i] = None) <=> (container[i] = None)
    /\ Up(container'[i]) =>
          ("podman" \in Faults /\ Up(container[i]) /\ instances'[i] = instances[i])
    /\ (instances'[i] = None) <=> (instances[i] = None)
    /\ instances[i] # None => /\ instances'[i].desired = instances[i].desired
                              /\ (Creating(instances'[i]) => Creating(instances[i]))
    /\ UNCHANGED phase /\ Calm

Work(t) ==
    \/ Starts(t) \/ Halts(t) \/ Pauses(t) \/ Edits(t) \/ Unmakes(t) \/ Removes(t)
    \/ Enters(t) \/ Makes(t) \/ Unwinds(t)

Saves(t) ==
    \/ Registers(t) \/ Retracts(t)
    \/ \E saved \in BOOLEAN : Ends(t, saved) \/ Flushes(t, saved)

Effect(t) ==
    \/ Walks(t) \/ Work(t) \/ Saves(t) \/ Snaps(t) \/ Commits(t)
    \/ \E i \in Ids : Sheds(t, i)

(* What happens behind the daemon.                                         *)
Outside ==
    /\ \A i \in Ids : /\ container'[i] # None => container[i] # None
                      /\ (Up(container'[i]) => Up(container[i]))
    /\ UNCHANGED <<file, phase, instances, moved, pc, op, target, failed, todo, view,
                   live, saving, asked, older, behind>>

-----------------------------------------------------------------------------
(* What records become                                                     *)

Turned(p, s) == [p EXCEPT !.status = s]

(* What the record updates of the actions change, and what they keep.      *)
LEMMA StatusUpdate ==
    ASSUME NEW p \in Instance, NEW s \in Status
    PROVE  /\ Turned(p, s) # None /\ Turned(p, s).status = s
           /\ Turned(p, s).desired = p.desired
           /\ Lasting(Turned(p, s)) = Lasting(p)
<1>1. /\ [p EXCEPT !.status = s] \in Instance
      /\ [p EXCEPT !.status = s].status = s
      /\ [p EXCEPT !.status = s].desired = p.desired
      /\ [p EXCEPT !.status = s].restart = p.restart
      /\ [p EXCEPT !.status = s].suspended = p.suspended
  BY DEF Instance
<1> QED BY <1>1, NoneAssumption DEF Lasting, Turned

LEMMA SuspendedUpdate ==
    ASSUME NEW p \in Instance
    PROVE  /\ [p EXCEPT !.status = "stopped", !.suspended = TRUE] # None
           /\ [p EXCEPT !.status = "stopped", !.suspended = TRUE].status = "stopped"
           /\ [p EXCEPT !.status = "stopped", !.suspended = TRUE].desired = p.desired
<1>1. /\ [p EXCEPT !.status = "stopped", !.suspended = TRUE] \in Instance
      /\ [p EXCEPT !.status = "stopped", !.suspended = TRUE].status = "stopped"
      /\ [p EXCEPT !.status = "stopped", !.suspended = TRUE].desired = p.desired
  BY DEF Instance, Status
<1> QED BY <1>1, NoneAssumption

LEMMA PolicyUpdate ==
    ASSUME NEW p \in Instance, NEW r \in RestartPolicy
    PROVE  /\ [p EXCEPT !.restart = r] # None
           /\ [p EXCEPT !.restart = r].status = p.status
           /\ [p EXCEPT !.restart = r].desired = p.desired
<1>1. /\ [p EXCEPT !.restart = r] \in Instance
      /\ [p EXCEPT !.restart = r].status = p.status
      /\ [p EXCEPT !.restart = r].desired = p.desired
  BY DEF Instance
<1> QED BY <1>1, NoneAssumption

Launched(p) == [p EXCEPT !.status = "running", !.desired = "running",
                         !.exit = 0, !.suspended = FALSE]
Ceased(p) == [p EXCEPT !.status = "stopped", !.desired = "stopped", !.suspended = FALSE]

LEMMA LaunchedUpdate ==
    ASSUME NEW p \in Instance
    PROVE  /\ Launched(p) # None /\ Launched(p).status = "running"
           /\ Launched(p).desired = "running"
<1>1. /\ Launched(p) \in Instance /\ Launched(p).status = "running"
      /\ Launched(p).desired = "running"
  BY DEF Instance, Status, DesiredState, ExitCode, Launched
<1> QED BY <1>1, NoneAssumption

LEMMA CeasedUpdate ==
    ASSUME NEW p \in Instance
    PROVE  /\ Ceased(p) # None /\ Ceased(p).status = "stopped"
           /\ Ceased(p).desired = "stopped"
<1>1. /\ Ceased(p) \in Instance /\ Ceased(p).status = "stopped"
      /\ Ceased(p).desired = "stopped"
  BY DEF Instance, Status, DesiredState, ExitCode, Ceased
<1> QED BY <1>1, NoneAssumption

(* A transition that meets no window writes its own entry and no other.    *)
LEMMA Transits ==
    ASSUME IInv, Ready, NEW t \in Threads, Alone(t), ShapeOf(t), pc[t] \in {"begun", "halfway"},
           NEW new, NEW hits, Transit(t, new, hits), windows' = {},
           asked' = asked \/ Attempt(t),
           \A j \in Ids : j # target[t] => container'[j] = container[j]
    PROVE  /\ Acts(t, "dirty") /\ hits = {}
           /\ instances[target[t]] # None /\ instances'[target[t]] = new
<1>0. /\ pc \in [Threads -> Location] /\ instances \in [Ids -> Instance \cup {None}]
      /\ asked \in [Ids -> SUBSET {"running", "stopped", "gone"}]
      /\ pc[t] \in Locked /\ target[t] \in Ids
  BY DEF IInv, TypeOK, TypeWorld, TypeControl, TypeHistory, InstanceMap, LocksHeld, Locked
<1>1. \A u \in Threads \ {t} : pc[u] \in Locked => target[u] # target[t]
  BY <1>0, Excludes
<1>2. t \in attached /\ hits = {}
  BY DEF Transit, Through, DetachedWrite
<1>3. instances' = [instances EXCEPT ![target[t]] = new] /\ instances[target[t]] # None
  BY <1>0, <1>2 DEF Transit, Mutate, IInv, EntriesPresent
<1>4. LeavesRest(target[t])
  BY <1>0, <1>3 DEF LeavesRest, Attempt
<1>5. Acts(t, "dirty")
  BY <1>0, <1>1, <1>4 DEF Acts, Transit, Goto, saves, ShapeOf, SavePoints
<1> QED BY <1>0, <1>2, <1>3, <1>5

-----------------------------------------------------------------------------
(* From actions to effects                                                 *)

(* A window gone through is not forgotten.                                 *)
LEMMA WindowsStay == IInv /\ [Next]_vars => windows \subseteq windows'
<1> SUFFICES ASSUME IInv, [Next]_vars PROVE windows \subseteq windows'
  OBVIOUS
<1> USE DEF podman, saves, passes, locals, history, vars
<1>1. ASSUME NEW t \in Threads, Step(t), ~Quit(t) PROVE windows \subseteq windows'
  <2>1. ASSUME Acquire(t) PROVE windows \subseteq windows'
    BY <2>1 DEF Acquire, Goto
  <2>2. ASSUME Refuse(t) PROVE windows \subseteq windows'
    BY <2>2 DEF Refuse, Goto, Abort, Finish, Unlock, Unbracket
  <2>3. ASSUME Begin(t) PROVE windows \subseteq windows'
    BY <2>3 DEF Begin, Goto, Bracket, Bump
  <2>4. ASSUME Start(t) PROVE windows \subseteq windows'
    BY <2>4 DEF Start, Goto, Transit, Mutate, StartContainer, FoundMissing, PodmanFails, Fail,
       Attempt, Through
  <2>5. ASSUME Stop(t) PROVE windows \subseteq windows'
    BY <2>5 DEF Stop, Goto, Transit, Mutate, StopContainer, FoundMissing, PodmanFails, Fail,
       Attempt, Through
  <2>6. ASSUME SetRestartPolicy(t) PROVE windows \subseteq windows'
    BY <2>6 DEF SetRestartPolicy, Goto, Transit, Mutate, Through
  <2>7. ASSUME RestartStop(t) PROVE windows \subseteq windows'
    BY <2>7 DEF RestartStop, Goto, Transit, Mutate, StopContainer, FoundMissing, Fail, Abort,
       Finish, Unlock, Unbracket, Through
  <2>8. ASSUME RestartStart(t) PROVE windows \subseteq windows'
    BY <2>8 DEF RestartStart, Goto, Transit, Mutate, StartContainer, Fail, Attempt, Through
  <2>9. ASSUME RemoveContainer(t) PROVE windows \subseteq windows'
    BY <2>9 DEF RemoveContainer, Goto, RemovalFailed, Abort, Finish, Unlock, Unbracket
  <2>10. ASSUME RemoveEntry(t) PROVE windows \subseteq windows'
    BY <2>10 DEF RemoveEntry, Goto, Delete, Attempt, Abort, Finish, Unlock, Unbracket
  <2>11. ASSUME CreateAbandon(t) PROVE windows \subseteq windows'
    BY <2>11 DEF CreateAbandon, Goto, Abort, Finish, Unlock, Unbracket
  <2>12. ASSUME CreateEntry(t) PROVE windows \subseteq windows'
    BY <2>12 DEF CreateEntry, Goto, Bracket, Bump, Attempt
  <2>13. ASSUME CreateContainer(t) PROVE windows \subseteq windows'
    BY <2>13 DEF CreateContainer, Goto, Delete, Fail
  <2>14. ASSUME CreateStart(t) PROVE windows \subseteq windows'
    BY <2>14 DEF CreateStart, Goto, StartContainer, Through, Fail
  <2>15. ASSUME Load(t) PROVE windows \subseteq windows'
    BY <2>15 DEF Load, Goto
  <2>16. ASSUME ListManaged(t) PROVE windows \subseteq windows'
    BY <2>16 DEF ListManaged, Goto
  <2>17. ASSUME Commit(t) PROVE windows \subseteq windows'
    BY <2>17 DEF Commit, Goto, EndRead, AfterPass, Through
  <2>18. ASSUME Discard(t) PROVE windows \subseteq windows'
    BY <2>18 DEF Discard, Goto, EndRead, AfterPass
  <2>19. ASSUME ListFails(t) PROVE windows \subseteq windows'
    BY <2>19 DEF ListFails, Goto, EndRead, AfterPass
  <2>20. ASSUME TakeCandidates(t) PROVE windows \subseteq windows'
    BY <2>20 DEF TakeCandidates, Goto
  <2>21. ASSUME RestoreNext(t) PROVE windows \subseteq windows'
    BY <2>21 DEF RestoreNext, Goto
  <2>22. ASSUME RestoreDone(t) PROVE windows \subseteq windows'
    BY <2>22 DEF RestoreDone, Goto
  <2>23. ASSUME SuspendBegin(t) PROVE windows \subseteq windows'
    BY <2>23 DEF SuspendBegin, Goto, Bracket, Bump
  <2>24. ASSUME SuspendStop(t) PROVE windows \subseteq windows'
    BY <2>24 DEF SuspendStop, Goto, StopContainer, IfKnown
  <2>25. ASSUME SuspendDone(t) PROVE windows \subseteq windows'
    BY <2>25 DEF SuspendDone, Goto
  <2>26. ASSUME Snapshot(t) PROVE windows \subseteq windows'
    BY <2>26 DEF Snapshot, Goto, SaveBump, Bump
  <2>27. ASSUME NEW saved \in BOOLEAN, CreateSaved(t, saved) PROVE windows \subseteq windows'
    BY <2>27 DEF CreateSaved, Goto, Write, Through, Delete, Fail
  <2>28. ASSUME NEW saved \in BOOLEAN, SaveAndFinish(t, saved) PROVE windows \subseteq windows'
    BY <2>28 DEF SaveAndFinish, Goto, Write, Through, Finish, Unlock, Unbracket, Settle
  <2>29. ASSUME NEW saved \in BOOLEAN, SaveReconciled(t, saved) PROVE windows \subseteq windows'
    BY <2>29 DEF SaveReconciled, Goto, Write, Through, AfterPass
  <2>30. ASSUME NEW saved \in BOOLEAN, SaveSuspended(t, saved) PROVE windows \subseteq windows'
    BY <2>30 DEF SaveSuspended, Goto, Write, Through
  <2> QED BY <1>1, <2>1, <2>2, <2>3, <2>4, <2>5, <2>6, <2>7, <2>8, <2>9, <2>10, <2>11, <2>12,
       <2>13, <2>14, <2>15, <2>16, <2>17, <2>18, <2>19, <2>20, <2>21, <2>22, <2>23, <2>24,
       <2>25, <2>26, <2>27, <2>28, <2>29, <2>30 DEF Step, Transition, Creation, Pass,
       Restoration, Suspension, Saving
<1>2. QED
  BY <1>1 DEF Next, Environment, Quit, Crash, BootFails, Down, Request, Launch, Tick,
     ContainerExits, ContainerRemoved, FileMovedAside, External, Through

(* Every step of a thread, outside the windows, has one of the effects.    *)
LEMMA StepEffect ==
    ASSUME IInv, Shape, Boot, windows' = {}, windows = {}, Story,
           NEW t \in Threads, Step(t), ~Quit(t)
    PROVE  Effect(t)
<1>0. /\ pc \in [Threads -> Location] /\ op \in [Threads -> Ops \cup {"supervise", None}]
      /\ target \in [Threads -> Ids \cup {None}] /\ todo \in [Threads -> SUBSET Ids]
      /\ view \in [Threads -> InstanceMap] /\ live \in [Threads -> ContainerMap]
      /\ older \in [Threads -> SUBSET Threads]
      /\ container \in ContainerMap /\ instances \in InstanceMap
      /\ ContainerMap = [Ids -> Container \cup {None}]
      /\ InstanceMap = [Ids -> Instance \cup {None}]
      /\ None \notin Container /\ None \notin Instance
      /\ asked \in [Ids -> SUBSET {"running", "stopped", "gone"}]
  BY NoneAssumption DEF IInv, TypeOK, TypeWorld, TypeControl, TypeLocal, TypeHistory, LocksHeld,
     ContainerMap, InstanceMap
<1>a. Alone(t) BY StepAlone
<1>x. pc[t] \in Locked => /\ target[t] \in Ids
                          /\ \A u \in Threads \ {t} : pc[u] \in Locked => target[u] # target[t]
  BY Excludes DEF IInv, LocksHeld
<1>w. /\ ShapeOf(t)
      /\ (pc[t] = "wait" => target[t] \in Ids)
      /\ t \in attached /\ pc[t] \in {"locked", "begun", "halfway"} => instances[target[t]] # None
      /\ pc[t] \in {"entered", "recorded", "created"} => instances[target[t]] # None
  BY DEF IInv, LocksHeld, EntriesPresent, Shape
<1>r. /\ pc[t] \notin {"idle", "load", "loaded", "listed"} => Ready
      /\ pc[t] = "wait" => Ready
  BY DEF IInv, DownIdle, Boot, Ready, FirstPass, Threads, TypeOK, TypeControl
<1> USE DEF podman, saves, passes, locals, history, vars, ShapeOf
<1>1. ASSUME Acquire(t) PROVE Effect(t)
  BY <1>0, <1>1, <1>a, <1>x, <1>w, <1>r DEF Acquire, Goto, Effect, Work, Saves, Walks, Owing,
     Ready, FirstPass, SavePoints
<1>2. ASSUME Refuse(t) PROVE Effect(t)
  BY <1>0, <1>2, <1>a, <1>x, <1>w, <1>r DEF Refuse, Goto, Abort, Finish, Unlock, Unbracket,
     Effect, Work, Saves, Walks, Owing, Ready, FirstPass, SavePoints
<1>3. ASSUME Begin(t) PROVE Effect(t)
  BY <1>0, <1>3, <1>a, <1>x, <1>w, <1>r DEF Begin, Goto, Bracket, Bump, Effect, Work, Saves,
     Walks, Owing, Ready, FirstPass, SavePoints
<1>4. ASSUME Start(t) PROVE Effect(t)
  <2>p. pc[t] = "begun" /\ pc[t] \in Locked /\ target[t] \in Ids
    BY <1>0, <1>x, <1>4 DEF Start, Locked
  <2>1. CASE /\ container[target[t]] # None /\ StartContainer(target[t])
             /\ Transit(t, Launched(instances[target[t]]),
                           StaleRestore(t) \cup LateStart)
             /\ Attempt(t) /\ failed' = failed
    <3>1. \A j \in Ids : j # target[t] => container'[j] = container[j]
      BY <1>0, <2>1 DEF StartContainer, StopContainer
    <3>2. /\ Acts(t, "dirty") /\ instances[target[t]] # None /\ StaleRestore(t) \cup LateStart = {}
          /\ instances'[target[t]] = Launched(instances[target[t]])
      BY <1>a, <1>w, <1>r, <2>p, <2>1, <3>1, Transits
    <3>3. instances[target[t]] \in Instance /\ container[target[t]] \in Container
      BY <1>0, <2>p, <2>1, <3>2
    <3>4. ~ShuttingDown /\ StaleRestore(t) = {} BY <3>2 DEF LateStart
    <3>5. Up(container'[target[t]]) /\ container'[target[t]] # None
      BY <1>0, <2>p, <2>1, ContainerRuns DEF Up
    <3>6. /\ instances'[target[t]] # None
          /\ instances'[target[t]].status = "running"
          /\ instances'[target[t]].desired = "running"
      BY <3>2, <3>3, LaunchedUpdate
    <3>7. op[t] \in Intentional => Intent(op[t]) = "running" /\ "running" \in asked'[target[t]]
      BY <1>0, <1>w, <2>p, <2>1, <1>4, ManagerAssumption DEF Start, Intentional, Intent,
         Attempt, Transitions, Creations, Passes, Restorers
    <3>8. op[t] \notin Intentional => "running" \in asked'[target[t]]
      <4>1. ASSUME op[t] \notin Intentional PROVE op[t] \in Restorers /\ asked' = asked
        BY <1>w, <2>p, <2>1, <4>1, <1>4 DEF Attempt, Intentional, Transitions, Restorers, Start
      <4>2. op[t] \in Restorers => instances[target[t]].desired = "running"
        BY <3>2, <3>4 DEF StaleRestore, ShouldAutoStart
      <4>3. Good(target[t], instances[target[t]])
        BY <1>r, <2>p DEF Story, Kept, Copies
      <4> QED BY <3>2, <4>1, <4>2, <4>3 DEF Good, Recorded
    <3> QED BY <2>1, <3>2, <3>4, <3>5, <3>6, <3>7, <3>8 DEF Effect, Work, Starts
  <2>2. CASE FoundMissing(t)
    <3>1. /\ Transit(t, Turned(instances[target[t]], "missing"), {})
          /\ container' = container /\ asked' = asked /\ failed' = failed \cup {t}
          /\ container[target[t]] = None
      BY <2>2 DEF FoundMissing, Fail, Turned
    <3>2. /\ Acts(t, "dirty") /\ instances[target[t]] # None
          /\ instances'[target[t]] = Turned(instances[target[t]], "missing")
      BY <1>a, <1>w, <1>r, <2>p, <3>1, Transits
    <3>3. instances[target[t]] \in Instance BY <1>0, <2>p, <3>2
    <3>4. /\ instances'[target[t]] # None
          /\ instances'[target[t]].desired = instances[target[t]].desired
          /\ instances'[target[t]].status = "missing"
      BY <3>2, <3>3, StatusUpdate DEF Status
    <3> QED BY <3>1, <3>2, <3>4 DEF Effect, Work, Edits, Creating, Up
  <2>3. CASE PodmanFails(t)
    BY <1>0, <1>a, <1>w, <1>r, <2>p, <2>3 DEF PodmanFails, Fail, Goto, Effect, Walks, Owing,
       Ready, FirstPass, SavePoints
  <2> QED BY <2>1, <2>2, <2>3, <1>4 DEF Start, Launched
<1>5. ASSUME Stop(t) PROVE Effect(t)
  <2>p. pc[t] = "begun" /\ pc[t] \in Locked /\ target[t] \in Ids
    BY <1>0, <1>x, <1>5 DEF Stop, Locked
  <2>1. CASE /\ container[target[t]] # None /\ StopContainer(target[t])
             /\ Transit(t, Ceased(instances[target[t]]),
                           {})
             /\ Attempt(t) /\ failed' = failed
    <3>1. \A j \in Ids : j # target[t] => container'[j] = container[j]
      BY <1>0, <2>1 DEF StartContainer, StopContainer
    <3>2. /\ Acts(t, "dirty") /\ instances[target[t]] # None /\ {} = {}
          /\ instances'[target[t]] = Ceased(instances[target[t]])
      BY <1>a, <1>w, <1>r, <2>p, <2>1, <3>1, Transits
    <3>3. instances[target[t]] \in Instance /\ container[target[t]] \in Container
      BY <1>0, <2>p, <2>1, <3>2
    <3>5. ~Up(container'[target[t]])
      BY <1>0, <2>p, <2>1, ContainerHalts
    <3>6. /\ instances'[target[t]] # None
          /\ instances'[target[t]].status = "stopped"
          /\ instances'[target[t]].desired = "stopped"
      BY <3>2, <3>3, CeasedUpdate
    <3>7. op[t] = "stop" /\ "stopped" \in asked'[target[t]]
      BY <1>0, <1>w, <2>p, <2>1, <1>5 DEF Stop, Intentional, Intent, Attempt, Transitions, Restorers
    <3> QED BY <2>1, <3>2, <3>5, <3>6, <3>7 DEF Effect, Work, Halts
  <2>2. CASE FoundMissing(t)
    <3>1. /\ Transit(t, Turned(instances[target[t]], "missing"), {})
          /\ container' = container /\ asked' = asked /\ failed' = failed \cup {t}
          /\ container[target[t]] = None
      BY <2>2 DEF FoundMissing, Fail, Turned
    <3>2. /\ Acts(t, "dirty") /\ instances[target[t]] # None
          /\ instances'[target[t]] = Turned(instances[target[t]], "missing")
      BY <1>a, <1>w, <1>r, <2>p, <3>1, Transits
    <3>3. instances[target[t]] \in Instance BY <1>0, <2>p, <3>2
    <3>4. /\ instances'[target[t]] # None
          /\ instances'[target[t]].desired = instances[target[t]].desired
          /\ instances'[target[t]].status = "missing"
      BY <3>2, <3>3, StatusUpdate DEF Status
    <3> QED BY <3>1, <3>2, <3>4 DEF Effect, Work, Edits, Creating, Up
  <2>3. CASE PodmanFails(t)
    BY <1>0, <1>a, <1>w, <1>r, <2>p, <2>3 DEF PodmanFails, Fail, Goto, Effect, Walks, Owing,
       Ready, FirstPass, SavePoints
  <2> QED BY <2>1, <2>2, <2>3, <1>5 DEF Stop, Ceased
<1>6. ASSUME SetRestartPolicy(t) PROVE Effect(t)
  <2>p. pc[t] = "begun" /\ pc[t] \in Locked /\ target[t] \in Ids
    BY <1>0, <1>x, <1>6 DEF SetRestartPolicy, Locked
  <2>1. PICK p \in Policies : Transit(t, [instances[target[t]] EXCEPT !.restart = p], {})
    BY <1>6 DEF SetRestartPolicy
  <2>2. UNCHANGED <<container, asked>> /\ op[t] = "policy" BY <1>6 DEF SetRestartPolicy
  <2>3. /\ Acts(t, "dirty") /\ instances[target[t]] # None
        /\ instances'[target[t]] = [instances[target[t]] EXCEPT !.restart = p]
    BY <1>a, <1>w, <1>r, <2>p, <2>1, <2>2, Transits
  <2>4. instances[target[t]] \in Instance /\ p \in RestartPolicy BY <1>0, <2>p, <2>3,
       ManagerAssumption
  <2>5. /\ instances'[target[t]] # None
        /\ instances'[target[t]].desired = instances[target[t]].desired
        /\ instances'[target[t]].status = instances[target[t]].status
    BY <2>3, <2>4, PolicyUpdate
  <2> QED BY <2>2, <2>3, <2>5 DEF Effect, Work, Edits, Creating, Intentional
<1>7. ASSUME RestartStop(t) PROVE Effect(t)
  <2>p. pc[t] = "begun" /\ pc[t] \in Locked /\ target[t] \in Ids
    BY <1>0, <1>x, <1>7 DEF RestartStop, Locked
  <2>1. CASE Abort(t)
    BY <1>0, <1>a, <1>w, <1>r, <2>p, <2>1 DEF Abort, Finish, Unlock, Unbracket, Goto, Effect,
       Walks, Owing, Ready, FirstPass, SavePoints
  <2>2. CASE FoundMissing(t)
    <3>1. /\ Transit(t, Turned(instances[target[t]], "missing"), {})
          /\ container' = container /\ asked' = asked /\ failed' = failed \cup {t}
          /\ container[target[t]] = None
      BY <2>2 DEF FoundMissing, Fail, Turned
    <3>2. /\ Acts(t, "dirty") /\ instances[target[t]] # None
          /\ instances'[target[t]] = Turned(instances[target[t]], "missing")
      BY <1>a, <1>w, <1>r, <2>p, <3>1, Transits
    <3>3. instances[target[t]] \in Instance BY <1>0, <2>p, <3>2
    <3>4. /\ instances'[target[t]] # None
          /\ instances'[target[t]].desired = instances[target[t]].desired
          /\ instances'[target[t]].status = "missing"
      BY <3>2, <3>3, StatusUpdate DEF Status
    <3> QED BY <3>1, <3>2, <3>4 DEF Effect, Work, Edits, Creating, Up
  <2>3. CASE /\ container[target[t]] # None /\ StopContainer(target[t]) /\ Goto(t, "halfway")
             /\ UNCHANGED <<phase, file, instances, locals, saves, asked, older>>
    <3>1. container[target[t]] \in Container BY <1>0, <2>p, <2>3
    <3>2. ~Up(container'[target[t]]) BY <1>0, <2>p, <2>3, ContainerHalts
    <3>3. Acts(t, "halfway")
      BY <1>0, <1>a, <1>x, <1>w, <1>r, <2>p, <2>3 DEF Acts, LeavesRest, StopContainer, Goto,
         SavePoints
    <3> QED BY <2>3, <3>2, <3>3 DEF Effect, Work, Pauses
  <2> QED BY <2>1, <2>2, <2>3, <1>7 DEF RestartStop
<1>8. ASSUME RestartStart(t) PROVE Effect(t)
  <2>p. pc[t] = "halfway" /\ pc[t] \in Locked /\ target[t] \in Ids
    BY <1>0, <1>x, <1>8 DEF RestartStart, Locked
  <2>1. CASE /\ container[target[t]] # None /\ StartContainer(target[t])
             /\ Transit(t, Launched(instances[target[t]]),
                           LateStart)
             /\ Attempt(t) /\ failed' = failed
    <3>1. \A j \in Ids : j # target[t] => container'[j] = container[j]
      BY <1>0, <2>1 DEF StartContainer, StopContainer
    <3>2. /\ Acts(t, "dirty") /\ instances[target[t]] # None /\ LateStart = {}
          /\ instances'[target[t]] = Launched(instances[target[t]])
      BY <1>a, <1>w, <1>r, <2>p, <2>1, <3>1, Transits
    <3>3. instances[target[t]] \in Instance /\ container[target[t]] \in Container
      BY <1>0, <2>p, <2>1, <3>2
    <3>4. ~ShuttingDown BY <3>2 DEF LateStart
    <3>5. Up(container'[target[t]]) /\ container'[target[t]] # None
      BY <1>0, <2>p, <2>1, ContainerRuns DEF Up
    <3>6. /\ instances'[target[t]] # None
          /\ instances'[target[t]].status = "running"
          /\ instances'[target[t]].desired = "running"
      BY <3>2, <3>3, LaunchedUpdate
    <3>7. op[t] \in Intentional /\ Intent(op[t]) = "running" /\ "running" \in asked'[target[t]]
      BY <1>0, <1>w, <2>p, <2>1 DEF Intentional, Intent, Attempt
    <3> QED BY <2>1, <3>2, <3>4, <3>5, <3>6, <3>7 DEF Effect, Work, Starts
  <2>2. CASE /\ Transit(t, Turned(instances[target[t]], "stopped"), {})
             /\ Fail(t) /\ UNCHANGED <<container, asked>>
    <3>2. /\ Acts(t, "dirty") /\ instances[target[t]] # None
          /\ instances'[target[t]] = Turned(instances[target[t]], "stopped")
      BY <1>a, <1>w, <1>r, <2>p, <2>2, Transits
    <3>3. instances[target[t]] \in Instance BY <1>0, <2>p, <3>2
    <3>4. ~Up(container[target[t]]) BY <2>p DEF Story, Halfway
    <3>5. /\ instances'[target[t]] # None
          /\ instances'[target[t]].desired = instances[target[t]].desired
          /\ instances'[target[t]].status = "stopped"
      BY <3>2, <3>3, StatusUpdate DEF Status
    <3> QED BY <2>2, <3>2, <3>4, <3>5 DEF Effect, Work, Edits, Creating, Fail
  <2> QED BY <2>1, <2>2, <1>8 DEF RestartStart, Launched, Turned
<1>9. ASSUME RemoveContainer(t) PROVE Effect(t)
  <2>p. pc[t] = "begun" /\ pc[t] \in Locked /\ target[t] \in Ids
    BY <1>0, <1>x, <1>9 DEF RemoveContainer, Locked
  <2>9. CASE Abort(t)
    BY <1>0, <1>a, <1>w, <1>r, <2>p, <2>9 DEF Abort, Finish, Unlock, Unbracket, Goto, Effect,
       Walks, Owing, Ready, FirstPass, SavePoints
  <2>1. CASE /\ container' = [container EXCEPT ![target[t]] = None] /\ Goto(t, "removed")
             /\ UNCHANGED <<data, phase, file, instances, locals, saves, asked, older>>
    <3>1. Acts(t, "removed")
      BY <1>0, <1>a, <1>x, <1>w, <1>r, <2>p, <2>1 DEF Acts, LeavesRest, Goto, SavePoints
    <3> QED BY <1>0, <2>p, <2>1, <3>1 DEF Effect, Work, Unmakes
  <2> QED BY <2>1, <2>9, <1>9 DEF RemoveContainer, RemovalFailed
<1>10. ASSUME RemoveEntry(t) PROVE Effect(t)
  <2>p. pc[t] = "removed" /\ pc[t] \in Locked /\ target[t] \in Ids
    BY <1>0, <1>x, <1>10 DEF RemoveEntry, Locked
  <2>9. CASE Abort(t)
    BY <1>0, <1>a, <1>w, <1>r, <2>p, <2>9 DEF Abort, Finish, Unlock, Unbracket, Goto, Effect,
       Walks, Owing, Ready, FirstPass, SavePoints
  <2>1. CASE /\ Delete(target[t]) /\ Goto(t, "dirty") /\ Attempt(t)
             /\ UNCHANGED <<container, phase, file, locals, saves, older>>
    <3>0. asked' = [asked EXCEPT ![target[t]] = @ \cup {"gone"}]
      BY <1>0, <1>w, <2>p, <2>1 DEF Attempt, Intentional, Intent
    <3>1. Acts(t, "dirty")
      BY <1>0, <1>a, <1>x, <1>w, <1>r, <2>p, <2>1, <3>0 DEF Acts, LeavesRest, Goto, SavePoints,
         Delete
    <3> QED BY <1>0, <1>w, <2>p, <2>1, <3>0, <3>1 DEF Effect, Work, Removes, Delete
  <2> QED BY <2>1, <2>9, <1>10 DEF RemoveEntry
<1>11. ASSUME CreateAbandon(t) PROVE Effect(t)
  BY <1>0, <1>11, <1>a, <1>x, <1>w, <1>r DEF CreateAbandon, Goto, Abort, Finish, Unlock,
     Unbracket, Effect, Work, Saves, Walks, Owing, Ready, FirstPass, SavePoints
<1>12. ASSUME CreateEntry(t) PROVE Effect(t)
  <2>p. pc[t] = "pulling" /\ pc[t] \in Locked /\ target[t] \in Ids
    BY <1>0, <1>x, <1>12 DEF CreateEntry, Locked
  <2>1. PICK p \in Policies :
           instances' = [instances EXCEPT ![target[t]] =
              [status |-> "creating", desired |-> DesiredFor(op[t] = "create"),
               restart |-> p, suspended |-> FALSE, exit |-> 0]]
    BY <1>12 DEF CreateEntry
  <2>2. /\ Goto(t, "entered") /\ Attempt(t)
        /\ UNCHANGED <<podman, file, phase, locals, saves>>
    BY <1>12 DEF CreateEntry
  <2>3. DesiredFor(op[t] = "create") = Intent(op[t]) /\ op[t] \in Intentional
    BY <1>w, <2>p DEF DesiredFor, Intent, Creations, Intentional
  <2>4. p \in RestartPolicy BY ManagerAssumption
  <2>5. Acts(t, "entered")
    BY <1>0, <1>a, <1>x, <1>w, <1>r, <2>p, <2>1, <2>2, <2>3 DEF Acts, LeavesRest, Goto,
       SavePoints, Attempt
  <2>6. /\ instances'[target[t]].status = "creating"
        /\ instances'[target[t]].desired = Intent(op[t]) /\ instances'[target[t]] \in Instance
    <3>1. DesiredFor(op[t] = "create") \in DesiredState BY DEF DesiredFor, DesiredState
    <3> QED BY <1>0, <2>p, <2>1, <2>3, <2>4, <3>1 DEF Instance, Status, ExitCode
  <2>7. Intent(op[t]) \in asked'[target[t]]
    BY <1>0, <2>p, <2>2, <2>3 DEF Attempt
  <2> QED BY <1>0, <2>p, <2>2, <2>5, <2>6, <2>7 DEF Effect, Work, Enters
<1>13. ASSUME CreateContainer(t) PROVE Effect(t)
  <2>p. pc[t] = "recorded" /\ pc[t] \in Locked /\ target[t] \in Ids
    BY <1>0, <1>x, <1>13 DEF CreateContainer, Locked
  <2>2. \/ UNCHANGED <<file, phase, locals, saves, asked>>
        \/ UNCHANGED <<file, phase, op, target, saves, asked>>
    BY <1>13 DEF CreateContainer
  <2>3. container[target[t]] = None /\ instances[target[t]] \in Instance
    BY <1>0, <1>w, <2>p DEF Story, Creates
  <2>1. CASE /\ container' = [container EXCEPT ![target[t]] =
                    [state |-> "stopped", exit |-> 0,
                     restart |-> instances[target[t]].restart,
                     desired |-> instances[target[t]].desired]]
             /\ instances' = [instances EXCEPT ![target[t]].status = "stopped"]
             /\ Goto(t, IF op[t] = "create" THEN "created" ELSE "dirty")
    <3>1. PICK l \in {"created", "dirty"} : Goto(t, l) /\ (l = "dirty" => op[t] # "create")
      BY <2>1
    <3>2. Acts(t, l) /\ pc'[t] = l
      BY <1>0, <1>a, <1>x, <1>w, <1>r, <2>p, <2>1, <2>2, <3>1 DEF Acts, LeavesRest, Goto, SavePoints
    <3>3. ~Up(container'[target[t]])
      <4>1. container'[target[t]].state = "stopped" BY <1>0, <2>p, <2>1
      <4> QED BY <4>1 DEF Up
    <3>4. /\ instances'[target[t]] = Turned(instances[target[t]], "stopped")
      BY <1>0, <2>p, <2>1 DEF Turned
    <3>5. /\ instances'[target[t]] # None /\ instances'[target[t]].status = "stopped"
          /\ instances'[target[t]].desired = instances[target[t]].desired
          /\ Lasting(instances'[target[t]]) = Lasting(instances[target[t]])
      BY <2>3, <3>4, StatusUpdate DEF Status
    <3> QED BY <1>0, <2>2, <2>3, <2>p, <3>1, <3>2, <3>3, <3>5 DEF Effect, Work, Makes
  <2>4. CASE Delete(target[t]) /\ Goto(t, "rollback") /\ Fail(t) /\ container' = container
    <3>1. Acts(t, "rollback")
      BY <1>0, <1>a, <1>x, <1>w, <1>r, <2>p, <2>4, <2>2 DEF Acts, LeavesRest, Goto, SavePoints,
         Delete
    <3> QED BY <1>0, <2>p, <2>2, <2>4, <3>1 DEF Effect, Work, Unwinds, Delete
  <2> QED BY <2>1, <2>4, <1>13 DEF CreateContainer
<1>14. ASSUME CreateStart(t) PROVE Effect(t)
  <2>p. pc[t] = "created" /\ pc[t] \in Locked /\ target[t] \in Ids
    BY <1>0, <1>x, <1>14 DEF CreateStart, Locked
  <2>1. CASE /\ container[target[t]] # None /\ StartContainer(target[t])
             /\ instances' = [instances EXCEPT ![target[t]].status = "running"]
             /\ Through(LateStart) /\ failed' = failed
    <3>1. UNCHANGED <<phase, file, op, target, view, saving, older, asked>> /\ Goto(t, "dirty")
      BY <1>14 DEF CreateStart
    <3>2. ~ShuttingDown BY <2>1 DEF Through, LateStart
    <3>3. Acts(t, "dirty")
      BY <1>0, <1>a, <1>x, <1>w, <1>r, <2>p, <2>1, <3>1, ContainerRuns DEF Acts, LeavesRest,
         Goto, SavePoints
    <3>4. Up(container'[target[t]]) BY <1>0, <2>p, <2>1, ContainerRuns
    <3>5. instances[target[t]] \in Instance BY <1>0, <1>w, <2>p
    <3>6. instances'[target[t]] = Turned(instances[target[t]], "running")
      BY <1>0, <2>p, <2>1 DEF Turned
    <3>7. Intent(op[t]) = "running" /\ instances[target[t]].desired = "running"
      BY <1>w, <2>p DEF Story, Creates, Intent
    <3>8. "running" \in asked'[target[t]]
      <4>1. Good(target[t], instances[target[t]]) BY <1>r, <2>p DEF Story, Kept, Copies
      <4> QED BY <1>0, <3>1, <3>5, <3>7, <4>1 DEF Good, Recorded
    <3>9. /\ instances'[target[t]] # None /\ instances'[target[t]].status = "running"
          /\ instances'[target[t]].desired = "running"
      BY <3>5, <3>6, <3>7, StatusUpdate DEF Status
    <3> QED BY <2>1, <3>2, <3>3, <3>4, <3>7, <3>8, <3>9 DEF Effect, Work, Starts
  <2>2. CASE Fail(t) /\ UNCHANGED <<container, instances, windows>>
    BY <1>0, <1>a, <1>w, <1>r, <2>p, <2>2, <1>14 DEF CreateStart, Fail, Goto, Effect, Walks,
       Owing, Ready, FirstPass, SavePoints
  <2> QED BY <2>1, <2>2, <1>14 DEF CreateStart
<1>15. ASSUME Load(t) PROVE Effect(t)
  BY <1>0, <1>15, <1>a, <1>x, <1>w, <1>r DEF Load, Goto, Effect, Work, Saves, Walks, Owing,
     Ready, FirstPass, SavePoints
<1>16. ASSUME ListManaged(t) PROVE Effect(t)
  BY <1>0, <1>16, <1>a, <1>x, <1>w, <1>r DEF ListManaged, Goto, Effect, Work, Saves, Walks,
     Owing, Ready, FirstPass, SavePoints
<1>17. ASSUME Commit(t) PROVE Effect(t)
  <2>i. inflight = 0 => \A u \in Threads : pc[u] \notin Bracketed
    BY InsideCounts DEF IInv, TypeOK, TypeControl
  <2>1. inflight = 0 /\ t \notin moved /\ pc[t] = "listed"
    BY <1>17 DEF Commit, Overtaken, IInv, TypeOK, TypeControl
  <2>2. t \notin behind BY <1>17 DEF Commit, Through
  <2>3. Eligible(t) BY <2>1, <2>2 DEF Eligible, Reconciling
  <2>4. UNCHANGED <<container, phase, file, asked, saving, older>>
    BY <1>17 DEF Commit, AfterPass, EndRead
  <2>5. pc'[t] \in {"drifted", "idle", "restore", "suspend"}
    BY <1>0, <1>17 DEF Commit, AfterPass, Goto
  <2>6. pc'[t] # "drifted" => \A i \in Ids : ~Drifted(view[t][i], live[t][i])
    BY <1>0, <1>17 DEF Commit, Goto
  <2>7. instances' = [i \in Ids |-> Reconciled(view[t][i], live[t][i])]
    BY <1>17 DEF Commit
  <2>8. t \notin saving BY <1>w, <2>1 DEF SavePoints
  <2> QED BY <1>a, <2>i, <2>1, <2>3, <2>4, <2>5, <2>6, <2>7, <2>8 DEF Effect, Commits, Calm
<1>18. ASSUME Discard(t) PROVE Effect(t)
  <2>1. Ready
    <3>1. CASE phase = "up" BY <3>1 DEF Ready
    <3>2. CASE phase = "boot"
      <4>1. t = Supervisor BY <3>2, <1>18 DEF Discard, Boot, Threads
      <4>2. \A u \in Threads : pc[u] \notin Bracketed
        BY <3>2, <4>1, <1>18 DEF Discard, Boot, Threads, Bracketed, Locked
      <4>3. inflight = 0
        <5>1. {u \in Threads : pc[u] \in Bracketed} = {} BY <4>2
        <5> QED BY <5>1, FS_EmptySet DEF IInv, InflightExact
      <4> QED BY <3>2, <4>3, <1>18 DEF Discard, Boot, Overtaken
    <3> QED BY <3>1, <3>2, <1>18 DEF Discard, IInv, DownIdle, TypeOK, TypeControl
  <2>2. pc'[t] \in {"idle", "suspend", "restore"} /\ pc[t] = "listed"
    BY <1>0, <1>18 DEF Discard, AfterPass, Goto
  <2>3. UNCHANGED <<container, phase, file, instances, asked, saving, older>>
    BY <1>18 DEF Discard, AfterPass, EndRead
  <2>4. t \notin saving BY <1>w, <2>2 DEF SavePoints
  <2> QED BY <1>a, <2>1, <2>2, <2>3, <2>4 DEF Effect, Walks, Owing
<1>19. ASSUME ListFails(t) PROVE Effect(t)
  BY <1>0, <1>19, <1>a, <1>x, <1>w, <1>r DEF ListFails, Goto, EndRead, AfterPass, Effect, Work,
     Saves, Walks, Owing, Ready, FirstPass, SavePoints
<1>20. ASSUME TakeCandidates(t) PROVE Effect(t)
  BY <1>0, <1>20, <1>a, <1>x, <1>w, <1>r DEF TakeCandidates, Goto, Effect, Work, Saves, Walks,
     Owing, Ready, FirstPass, SavePoints
<1>21. ASSUME RestoreNext(t) PROVE Effect(t)
  BY <1>0, <1>21, <1>a, <1>x, <1>w, <1>r DEF RestoreNext, Goto, Effect, Work, Saves, Walks,
     Owing, Ready, FirstPass, SavePoints
<1>22. ASSUME RestoreDone(t) PROVE Effect(t)
  BY <1>0, <1>22, <1>a, <1>x, <1>w, <1>r DEF RestoreDone, Goto, Effect, Work, Saves, Walks,
     Owing, Ready, FirstPass, SavePoints
<1>23. ASSUME SuspendBegin(t) PROVE Effect(t)
  BY <1>0, <1>23, <1>a, <1>x, <1>w, <1>r DEF SuspendBegin, Goto, Bracket, Bump, Effect, Work,
     Saves, Walks, Owing, Ready, FirstPass, SavePoints
<1>24. ASSUME SuspendStop(t) PROVE Effect(t)
  <2>1. PICK i \in Ids :
          /\ lock[i] = None
          /\ todo' = [todo EXCEPT ![t] = @ \ {i}]
          /\ \/ /\ container[i] # None
                /\ StopContainer(i)
                /\ IfKnown(i, [instances[i] EXCEPT !.status = "stopped",
                                                  !.suspended = TRUE])
             \/ /\ container[i] = None
                /\ IfKnown(i, [instances[i] EXCEPT !.status = "missing"])
                /\ container' = container
             \/ /\ container[i] # None /\ "podman" \in Faults
                /\ UNCHANGED <<container, instances>>
    BY <1>24 DEF SuspendStop
  <2>2. UNCHANGED <<file, phase, pc, asked, saving, older>> /\ pc[t] = "suspending"
    BY <1>24 DEF SuspendStop
  <2>3. \A u \in Threads : pc[u] \in Locked => target[u] # i
    BY <2>1, ManagerAssumption DEF IInv, LocksHeld
  <2>4. todo'[t] = todo[t] \ {i} BY <1>0, <2>1
  <2>5. \A j \in Ids \ {i} : container'[j] = container[j] /\ instances'[j] = instances[j]
    BY <1>0, <2>1 DEF StopContainer, IfKnown
  <2>6. /\ (container'[i] = None) <=> (container[i] = None)
        /\ Up(container'[i]) =>
              ("podman" \in Faults /\ Up(container[i]) /\ instances'[i] = instances[i])
    BY <1>0, <2>1, ContainerHalts DEF Up
  <2>7. /\ (instances'[i] = None) <=> (instances[i] = None)
        /\ instances[i] # None => /\ instances'[i].desired = instances[i].desired
                                  /\ (Creating(instances'[i]) => Creating(instances[i]))
    <3>1. CASE instances' = instances BY <3>1
    <3>2. ASSUME NEW s \in {"stopped", "missing"}, instances[i] # None,
                 \/ instances'[i] = Turned(instances[i], s)
                 \/ instances'[i] = [instances[i] EXCEPT !.status = "stopped", !.suspended = TRUE]
          PROVE /\ instances'[i] # None /\ instances'[i].desired = instances[i].desired
                /\ ~Creating(instances'[i])
      <4>1. instances[i] \in Instance /\ s \in Status BY <1>0, <3>2 DEF Status
      <4>2. CASE instances'[i] = Turned(instances[i], s)
        BY <3>2, <4>1, <4>2, StatusUpdate DEF Creating
      <4>3. CASE instances'[i] = [instances[i] EXCEPT !.status = "stopped", !.suspended = TRUE]
        BY <3>2, <4>1, <4>3, SuspendedUpdate DEF Creating
      <4> QED BY <3>2, <4>2, <4>3
    <3>3. CASE instances[i] # None /\ instances' # instances
      BY <1>0, <2>1, <3>2, <3>3 DEF IfKnown, Turned
    <3> QED BY <2>1, <3>1, <3>3 DEF IfKnown
  <2>8. t \notin saving BY <1>w, <2>2 DEF SavePoints
  <2> QED BY <1>a, <1>r, <2>2, <2>3, <2>4, <2>5, <2>6, <2>7, <2>8 DEF Effect, Sheds, Calm
<1>25. ASSUME SuspendDone(t) PROVE Effect(t)
  BY <1>0, <1>25, <1>a, <1>x, <1>w, <1>r DEF SuspendDone, Goto, Effect, Work, Saves, Walks,
     Owing, Ready, FirstPass, SavePoints
<1>26. ASSUME Snapshot(t) PROVE Effect(t)
  BY <1>0, <1>26, <1>a, <1>x, <1>w, <1>r DEF Snapshot, Goto, SaveBump, Bump, Effect, Work,
     Saves, Snaps, SavePoints, Reconciling
<1>27. ASSUME NEW saved \in BOOLEAN, CreateSaved(t, saved) PROVE Effect(t)
  <2>p. pc[t] = "entered" /\ pc[t] \in Locked /\ target[t] \in Ids
    BY <1>0, <1>x, <1>27 DEF CreateSaved, Locked
  <2>1. /\ t \in saving /\ saving' = saving \ {t} /\ UNCHANGED <<podman, phase, asked, op, target>>
        /\ older' = [u \in Threads |-> IF u = t THEN {} ELSE older[u] \ {t}]
        /\ (IF saved THEN file' = view[t] /\ older[t] = {} ELSE file' = file /\ "disk" \in Faults)
    BY <1>27 DEF CreateSaved, Write, Through
  <2>2. CASE saved
    BY <1>0, <1>a, <1>r, <2>p, <2>1, <2>2, <1>27 DEF CreateSaved, Goto, Effect, Saves,
       Registers, Replaces
  <2>3. CASE ~saved
    BY <1>0, <1>a, <1>r, <2>p, <2>1, <2>3, <1>27 DEF CreateSaved, Goto, Delete, Effect, Saves,
       Retracts, Replaces
  <2> QED BY <2>2, <2>3
<1>28. ASSUME NEW saved \in BOOLEAN, SaveAndFinish(t, saved) PROVE Effect(t)
  BY <1>0, <1>28, <1>a, <1>x, <1>w, <1>r DEF SaveAndFinish, Goto, Write, Through, Finish,
     Unlock, Unbracket, Settle, Effect, Work, Saves, Ends, Replaces
<1>29. ASSUME NEW saved \in BOOLEAN, SaveReconciled(t, saved) PROVE Effect(t)
  BY <1>0, <1>29, <1>a, <1>x, <1>w, <1>r DEF SaveReconciled, Goto, Write, Through, AfterPass,
     Effect, Work, Saves, Flushes, Replaces
<1>30. ASSUME NEW saved \in BOOLEAN, SaveSuspended(t, saved) PROVE Effect(t)
  BY <1>0, <1>30, <1>a, <1>x, <1>w, <1>r DEF SaveSuspended, Goto, Write, Through, Effect, Work,
     Saves, Flushes, Replaces
<1> QED BY <1>1, <1>2, <1>3, <1>4, <1>5, <1>6, <1>7, <1>8, <1>9, <1>10, <1>11, <1>12, <1>13,
     <1>14, <1>15, <1>16, <1>17, <1>18, <1>19, <1>20, <1>21, <1>22, <1>23, <1>24, <1>25, <1>26,
     <1>27, <1>28, <1>29, <1>30 DEF Step, Transition, Creation, Pass, Restoration, Suspension,
     Saving

LEMMA BeginWalks ==
    ASSUME IInv, Shape, NEW t \in Threads,
           \/ \E o \in Ops, i \in Ids : t \in Clients /\ Request(t, o, i)
           \/ t = Supervisor /\ (Launch \/ Tick)
    PROVE  Walks(t)
<1>0. /\ pc \in [Threads -> Location] /\ op \in [Threads -> Ops \cup {"supervise", None}]
      /\ target \in [Threads -> Ids \cup {None}] /\ todo \in [Threads -> SUBSET Ids]
      /\ view \in [Threads -> InstanceMap] /\ live \in [Threads -> ContainerMap]
      /\ older \in [Threads -> SUBSET Threads]
  BY DEF IInv, TypeOK, TypeWorld, TypeControl, TypeLocal, TypeHistory
<1>a. Alone(t) BY BeginAlone
<1>w. ShapeOf(t) BY DEF Shape
<1> USE DEF podman, saves, passes, locals, history, vars, Walks, Goto, Owing, Ready, FirstPass,
     ShapeOf, SavePoints
<1>1. ASSUME NEW o \in Ops, NEW i \in Ids, t \in Clients, Request(t, o, i) PROVE Walks(t)
  BY <1>0, <1>1, <1>a, <1>w DEF Request
<1>2. ASSUME t = Supervisor, Launch PROVE Walks(t)
  BY <1>0, <1>2, <1>a, <1>w DEF Launch, IInv, DownIdle
<1>3. ASSUME t = Supervisor, Tick PROVE Walks(t)
  BY <1>0, <1>3, <1>a, <1>w DEF Tick
<1> QED BY <1>1, <1>2, <1>3

(* And so has every step of the system.                                    *)
LEMMA NextEffect ==
    ASSUME IInv, Shape, Boot, Story, windows = {}, windows' = {}, [Next]_vars
    PROVE  Down \/ Outside \/ \E t \in Threads : Effect(t)
<1>1. ASSUME NEW t \in Threads, Step(t) PROVE Down \/ Effect(t)
  BY <1>1, StepEffect DEF Quit
<1>2. ASSUME NEW t \in Clients, NEW o \in Ops, NEW i \in Ids, Request(t, o, i)
      PROVE  t \in Threads /\ Effect(t)
  <2>1. t \in Threads BY DEF Threads
  <2> QED BY <1>2, <2>1, BeginWalks DEF Effect
<1>3. ASSUME Launch \/ Tick PROVE Supervisor \in Threads /\ Effect(Supervisor)
  <2>1. Supervisor \in Threads BY DEF Threads
  <2> QED BY <1>3, <2>1, BeginWalks DEF Effect
<1>4. ASSUME NEW i \in Ids, ContainerExits(i) PROVE Outside
  <2>1. container \in ContainerMap BY DEF IInv, TypeOK, TypeWorld
  <2>2. container[i] # None /\ StopContainer(i) BY <1>4 DEF ContainerExits
  <2>3. /\ container'[i] # None /\ ~Up(container'[i])
        /\ \A j \in Ids \ {i} : container'[j] = container[j]
    BY <2>1, <2>2, ContainerHalts
  <2> QED BY <1>4, <2>2, <2>3 DEF ContainerExits, Outside, External, podman, saves, passes,
       locals, history
<1>5. ASSUME NEW i \in Ids, ContainerRemoved(i) PROVE Outside
  <2>1. \A j \in Ids : container'[j] = IF j = i THEN None ELSE container[j]
    BY <1>5 DEF ContainerRemoved, IInv, TypeOK, TypeWorld, ContainerMap
  <2> QED BY <1>5, <2>1 DEF ContainerRemoved, Outside, External, Up, podman, saves, passes,
       locals, history
<1>6. ~FileMovedAside BY DEF FileMovedAside, Through
<1>7. ASSUME UNCHANGED vars PROVE Outside
  BY <1>7 DEF Outside, podman, saves, passes, locals, history, vars
<1>8. BootFails \/ Crash => Down BY DEF BootFails, Crash
<1> QED BY <1>1, <1>2, <1>3, <1>4, <1>5, <1>6, <1>7, <1>8 DEF Next, Environment

LEMMA BusyReady ==
    ASSUME IInv, Boot, NEW t \in Threads, pc[t] \notin {"idle", "load", "loaded", "listed"}
    PROVE  Ready
BY DEF IInv, DownIdle, Boot, Ready, FirstPass, Threads, TypeOK, TypeControl

-----------------------------------------------------------------------------
(* Every effect keeps the invariant                                        *)

(* A step adds no copy of the records but the map it has just written.     *)
CopiesGrow == \A m \in Copies' : m \in Copies \/ (Ready' /\ m = instances')

LEMMA CopiesKept ==
    ASSUME IInv, Shape, Boot, Story, windows = {}, windows' = {}, [Next]_vars
    PROVE  CopiesGrow
<1>c. \A m : (m \in Copies) <=>
         (m = file \/ (\E u \in saving : m = view[u]) \/ (Ready /\ m = instances))
  BY DEF Copies
<1>d. \A m : (m \in Copies') <=>
         (m = file' \/ (\E u \in saving' : m = view'[u]) \/ (Ready' /\ m = instances'))
  BY DEF Copies
<1>s. saving \subseteq Threads /\ saving' \subseteq Threads
  BY NextKeeps DEF IInv, TypeOK, TypeLocal
<1>1. ASSUME NEW t \in Threads, Walks(t) PROVE CopiesGrow
  BY <1>1, <1>c, <1>d, <1>s DEF Walks, Alone, CopiesGrow
<1>2. ASSUME NEW t \in Threads, Starts(t) PROVE CopiesGrow
  BY <1>2, <1>c, <1>d, <1>s DEF Starts, Acts, LeavesRest, Alone, CopiesGrow
<1>3. ASSUME NEW t \in Threads, Halts(t) PROVE CopiesGrow
  BY <1>3, <1>c, <1>d, <1>s DEF Halts, Acts, LeavesRest, Alone, CopiesGrow
<1>4. ASSUME NEW t \in Threads, Pauses(t) PROVE CopiesGrow
  BY <1>4, <1>c, <1>d, <1>s DEF Pauses, Acts, LeavesRest, Alone, CopiesGrow
<1>5. ASSUME NEW t \in Threads, Edits(t) PROVE CopiesGrow
  BY <1>5, <1>c, <1>d, <1>s DEF Edits, Acts, LeavesRest, Alone, CopiesGrow
<1>6. ASSUME NEW t \in Threads, Unmakes(t) PROVE CopiesGrow
  BY <1>6, <1>c, <1>d, <1>s DEF Unmakes, Acts, LeavesRest, Alone, CopiesGrow
<1>7. ASSUME NEW t \in Threads, Removes(t) PROVE CopiesGrow
  BY <1>7, <1>c, <1>d, <1>s DEF Removes, Acts, LeavesRest, Alone, CopiesGrow
<1>8. ASSUME NEW t \in Threads, Enters(t) PROVE CopiesGrow
  BY <1>8, <1>c, <1>d, <1>s DEF Enters, Acts, LeavesRest, Alone, CopiesGrow
<1>9. ASSUME NEW t \in Threads, Makes(t) PROVE CopiesGrow
  BY <1>9, <1>c, <1>d, <1>s DEF Makes, Acts, LeavesRest, Alone, CopiesGrow
<1>10. ASSUME NEW t \in Threads, Unwinds(t) PROVE CopiesGrow
  BY <1>10, <1>c, <1>d, <1>s DEF Unwinds, Acts, LeavesRest, Alone, CopiesGrow
<1>11. ASSUME NEW t \in Threads, Registers(t) PROVE CopiesGrow
  BY <1>11, <1>c, <1>d, <1>s DEF Registers, Replaces, Alone, CopiesGrow
<1>12. ASSUME NEW t \in Threads, Retracts(t) PROVE CopiesGrow
  BY <1>12, <1>c, <1>d, <1>s DEF Retracts, Replaces, Alone, CopiesGrow
<1>13. ASSUME NEW t \in Threads, NEW saved \in BOOLEAN, Ends(t, saved) PROVE CopiesGrow
  BY <1>13, <1>c, <1>d, <1>s DEF Ends, Replaces, Alone, CopiesGrow
<1>14. ASSUME NEW t \in Threads, NEW saved \in BOOLEAN, Flushes(t, saved) PROVE CopiesGrow
  BY <1>14, <1>c, <1>d, <1>s DEF Flushes, Replaces, Alone, CopiesGrow
<1>15. ASSUME NEW t \in Threads, Snaps(t) PROVE CopiesGrow
  BY <1>15, <1>c, <1>d, <1>s DEF Snaps, Alone, CopiesGrow
<1>16. ASSUME NEW t \in Threads, Commits(t) PROVE CopiesGrow
  BY <1>16, <1>c, <1>d, <1>s DEF Commits, Calm, Alone, CopiesGrow
<1>17. ASSUME NEW t \in Threads, NEW i \in Ids, Sheds(t, i) PROVE CopiesGrow
  BY <1>17, <1>c, <1>d, <1>s DEF Sheds, Calm, Alone, CopiesGrow
<1>18. ASSUME Down PROVE CopiesGrow
  BY <1>18, <1>c, <1>d, <1>s DEF Down, podman, CopiesGrow, Ready
<1>19. ASSUME Outside PROVE CopiesGrow
  BY <1>19, <1>c, <1>d, <1>s DEF Outside, CopiesGrow
<1> QED BY NextEffect, <1>1, <1>2, <1>3, <1>4, <1>5, <1>6, <1>7, <1>8, <1>9, <1>10, <1>11,
     <1>12, <1>13, <1>14, <1>15, <1>16, <1>17, <1>18, <1>19 DEF Effect, Work, Saves

(* What a pass makes of an entry.                                          *)
LEMMA Reconciles ==
    ASSUME NEW p \in Instance \cup {None}, NEW c \in Container \cup {None}
    PROVE  /\ p # None /\ c # None =>
                /\ Reconciled(p, c) # None /\ Reconciled(p, c).desired = p.desired
                /\ Reconciled(p, c).status = StatusFrom(c)
                /\ Lasting(Reconciled(p, c)) = Lasting(p)
           /\ p = None /\ c = None => Reconciled(p, c) = None
           /\ p # None /\ c = None /\ Creating(p) => Reconciled(p, c) = None
           /\ p # None /\ c = None /\ ~Creating(p) =>
                /\ Reconciled(p, c) # None /\ Reconciled(p, c).desired = p.desired
                /\ ~Creating(Reconciled(p, c))
<1>1. CASE p # None /\ c # None
  <2>1. p \in Instance /\ c \in Container BY <1>1
  <2>2. Reconciled(p, c) = Refreshed(p, c) BY <1>1 DEF Reconciled
  <2>3. ASSUME NEW s \in Status, NEW e \in ExitCode
        PROVE  /\ [p EXCEPT !.status = s, !.exit = e] \in Instance
               /\ [p EXCEPT !.status = s, !.exit = e].status = s
               /\ [p EXCEPT !.status = s, !.exit = e].desired = p.desired
               /\ [p EXCEPT !.status = s, !.exit = e].restart = p.restart
               /\ [p EXCEPT !.status = s, !.exit = e].suspended = p.suspended
    BY <2>1 DEF Instance
  <2>4. StatusFrom(c) \in Status /\ (IF c.state = "running" THEN 0 ELSE c.exit) \in ExitCode
    BY <2>1 DEF StatusFrom, Status, Container, ExitCode
  <2> DEFINE R == Refreshed(p, c)
  <2>5. /\ R \in Instance /\ R.status = StatusFrom(c) /\ R.desired = p.desired
        /\ R.restart = p.restart /\ R.suspended = p.suspended
    <3> DEFINE e == IF c.state = "running" THEN 0 ELSE c.exit
    <3>1. R = [p EXCEPT !.status = StatusFrom(c), !.exit = e]
      BY DEF Refreshed
    <3>2. StatusFrom(c) \in Status /\ e \in ExitCode
      BY <2>4
    <3> HIDE DEF R, e
    <3> QED BY <2>3, <3>1, <3>2
  <2> HIDE DEF R
  <2>6. R # None /\ Lasting(R) = Lasting(p) BY <1>1, <2>5, NoneAssumption DEF Lasting
  <2> QED BY <1>1, <2>2, <2>5, <2>6 DEF R
<1>2. CASE p # None /\ c = None /\ ~Creating(p)
  <2>1. Reconciled(p, c) = Turned(p, "missing") BY <1>2 DEF Reconciled, Creating, Turned
  <2>2. Turned(p, "missing") # None /\ Turned(p, "missing").desired = p.desired
        /\ Turned(p, "missing").status = "missing"
    BY <1>2, StatusUpdate DEF Status
  <2> QED BY <1>2, <2>1, <2>2 DEF Creating
<1>3. CASE c = None /\ (p = None \/ Creating(p))
  BY <1>3 DEF Reconciled, Creating
<1>4. CASE p = None /\ c # None
  BY <1>4 DEF Reconciled
<1> QED BY <1>1, <1>2, <1>3, <1>4 DEF Creating

(* Every effect keeps every conjunct of Story. A pass loses its right to   *)
(* commit when the file or a container changes under it.                   *)
LEMMA ReadsKept ==
    ASSUME IInv, Shape, Boot, Story, windows = {}, windows' = {}, [Next]_vars
    PROVE  Reads'
<1>l. \A u \in Threads : pc[u] \in Locked => target[u] \in Ids
  BY DEF IInv, LocksHeld
<1>c. \A m : (m \in Copies) <=>
         (m = file \/ (\E u \in saving : m = view[u]) \/ (Ready /\ m = instances))
  BY DEF Copies
<1> USE DEF Story
<1>1. ASSUME NEW t \in Threads, Walks(t) PROVE Reads'
  <2>1. ASSUME NEW u \in Threads, Eligible(u)'
        PROVE  /\ saving' = {} /\ view'[u] = file'
               /\ pc'[u] = "listed" => \A i \in Ids : live'[u][i] # None => file'[i] # None
    <3>1. CASE u # t BY <3>1, <2>1, <1>1 DEF Walks, Alone, Reads, Eligible
    <3>2. CASE u = t /\ pc'[t] = "loaded" BY <3>2, <2>1, <1>1 DEF Walks, Alone, Eligible
    <3>3. CASE u = t /\ pc'[t] = "listed"
      <4>0. /\ pc[t] = "loaded" /\ view'[t] = view[t] /\ live'[t] = container
            /\ (t \in moved' \cup behind') <=> (t \in moved \cup behind)
            /\ saving' = saving /\ file' = file
        BY <3>3, <1>1 DEF Walks
      <4>1. Eligible(t) BY <3>3, <2>1, <4>0 DEF Eligible, Reconciling
      <4>2. \A i \in Ids : container[i] # None => file[i] # None BY <1>c DEF Named
      <4> QED BY <3>3, <4>0, <4>1, <4>2 DEF Reads
    <3> QED BY <2>1, <3>1, <3>2, <3>3 DEF Eligible, Reconciling
  <2>2. ASSUME NEW u \in Threads, pc'[u] = "listed", u \notin moved', ~Unsaved', NEW i \in Ids,
               container'[i] # None
        PROVE  live'[u][i] # None /\ (Up(container'[i]) => live'[u][i].state = "running")
    <3>1. CASE u = t
      <4>1. live'[t] = container /\ container' = container BY <2>2, <3>1, <1>1 DEF Walks
      <4> QED BY <2>2, <3>1, <4>1 DEF Up
    <3>2. ~Unsaved BY <2>2, <1>1 DEF Walks, Alone, Unsaved
    <3>3. CASE u # t BY <3>2, <3>3, <2>2, <1>1 DEF Walks, Alone, Reads
    <3> QED BY <3>1, <3>3
  <2> QED BY <2>1, <2>2 DEF Reads, Eligible, Unsaved, Up
<1>2. ASSUME NEW t \in Threads, Starts(t) PROVE Reads'
  BY <1>2, <1>c, <1>l DEF Starts, Acts, LeavesRest, Alone, Reads, Eligible, Unsaved,
     Reconciling, Up, Named, Locked, SavePoints, Bracketed
<1>3. ASSUME NEW t \in Threads, Halts(t) PROVE Reads'
  BY <1>3, <1>c, <1>l DEF Halts, Acts, LeavesRest, Alone, Reads, Eligible, Unsaved, Reconciling,
     Up, Named, Locked, SavePoints, Bracketed
<1>4. ASSUME NEW t \in Threads, Pauses(t) PROVE Reads'
  BY <1>4, <1>c, <1>l DEF Pauses, Acts, LeavesRest, Alone, Reads, Eligible, Unsaved,
     Reconciling, Up, Named, Locked, SavePoints, Bracketed
<1>5. ASSUME NEW t \in Threads, Edits(t) PROVE Reads'
  BY <1>5, <1>c, <1>l DEF Edits, Acts, LeavesRest, Alone, Reads, Eligible, Unsaved, Reconciling,
     Up, Named, Locked, SavePoints, Bracketed
<1>6. ASSUME NEW t \in Threads, Unmakes(t) PROVE Reads'
  BY <1>6, <1>c, <1>l DEF Unmakes, Acts, LeavesRest, Alone, Reads, Eligible, Unsaved,
     Reconciling, Up, Named, Locked, SavePoints, Bracketed
<1>7. ASSUME NEW t \in Threads, Removes(t) PROVE Reads'
  BY <1>7, <1>c, <1>l DEF Removes, Acts, LeavesRest, Alone, Reads, Eligible, Unsaved,
     Reconciling, Up, Named, Locked, SavePoints, Bracketed
<1>8. ASSUME NEW t \in Threads, Enters(t) PROVE Reads'
  BY <1>8, <1>c, <1>l DEF Enters, Acts, LeavesRest, Alone, Reads, Eligible, Unsaved,
     Reconciling, Up, Named, Locked, SavePoints, Bracketed
<1>9. ASSUME NEW t \in Threads, Makes(t) PROVE Reads'
  BY <1>9, <1>c, <1>l DEF Makes, Acts, LeavesRest, Alone, Reads, Eligible, Unsaved, Reconciling,
     Up, Named, Locked, SavePoints, Bracketed
<1>10. ASSUME NEW t \in Threads, Unwinds(t) PROVE Reads'
  BY <1>10, <1>c, <1>l DEF Unwinds, Acts, LeavesRest, Alone, Reads, Eligible, Unsaved,
     Reconciling, Up, Named, Locked, SavePoints, Bracketed
<1>11. ASSUME NEW t \in Threads, Registers(t) PROVE Reads'
  BY <1>11, <1>c, <1>l DEF Registers, Replaces, Alone, Reads, Eligible, Unsaved, Reconciling,
     Up, Named, Locked, SavePoints, Bracketed
<1>12. ASSUME NEW t \in Threads, Retracts(t) PROVE Reads'
  BY <1>12, <1>c, <1>l DEF Retracts, Replaces, Alone, Reads, Eligible, Unsaved, Reconciling, Up,
     Named, Locked, SavePoints, Bracketed
<1>13. ASSUME NEW t \in Threads, NEW saved \in BOOLEAN, Ends(t, saved) PROVE Reads'
  BY <1>13, <1>c, <1>l DEF Ends, Replaces, Alone, Reads, Eligible, Unsaved, Reconciling, Up,
     Named, Locked, SavePoints, Bracketed
<1>14. ASSUME NEW t \in Threads, NEW saved \in BOOLEAN, Flushes(t, saved) PROVE Reads'
  BY <1>14, <1>c, <1>l DEF Flushes, Replaces, Alone, Reads, Eligible, Unsaved, Reconciling, Up,
     Named, Locked, SavePoints, Bracketed
<1>15. ASSUME NEW t \in Threads, Snaps(t) PROVE Reads'
  BY <1>15, <1>c, <1>l DEF Snaps, Alone, Reads, Eligible, Unsaved, Reconciling, Up, Named,
     Locked, SavePoints, Bracketed
<1>16. ASSUME NEW t \in Threads, Commits(t) PROVE Reads'
  BY <1>16, <1>c, <1>l DEF Commits, Calm, Alone, Reads, Eligible, Unsaved, Reconciling, Up,
     Named, Locked, SavePoints, Bracketed
<1>17. ASSUME NEW t \in Threads, NEW i \in Ids, Sheds(t, i) PROVE Reads'
  BY <1>17, <1>c, <1>l DEF Sheds, Calm, Alone, Reads, Eligible, Unsaved, Reconciling, Up, Named,
     Locked, SavePoints, Bracketed
<1>18. ASSUME Down PROVE Reads'
  BY <1>18, <1>c, <1>l DEF Down, podman, Reads, Eligible, Unsaved, Reconciling, Up, Named,
     Locked, SavePoints, Bracketed
<1>19. ASSUME Outside PROVE Reads'
  BY <1>19, <1>c, <1>l DEF Outside, Reads, Eligible, Unsaved, Reconciling, Up, Named, Locked,
     SavePoints, Bracketed
<1> QED BY NextEffect, <1>1, <1>2, <1>3, <1>4, <1>5, <1>6, <1>7, <1>8, <1>9, <1>10, <1>11,
     <1>12, <1>13, <1>14, <1>15, <1>16, <1>17, <1>18, <1>19 DEF Effect, Work, Saves

(* A creation holds the mutex of its id until it has answered.             *)
LEMMA CreatesKept ==
    ASSUME IInv, Shape, Boot, Story, windows = {}, windows' = {}, [Next]_vars
    PROVE  Creates'
<1>i. /\ instances \in [Ids -> Instance \cup {None}] /\ container \in [Ids -> Container \cup {None}]
      /\ file \in [Ids -> Instance \cup {None}]
      /\ asked \in [Ids -> SUBSET {"running", "stopped", "gone"}]
      /\ \A u \in Threads : /\ view[u] \in [Ids -> Instance \cup {None}]
                            /\ live[u] \in [Ids -> Container \cup {None}]
                            /\ (pc[u] \in {"entered", "recorded", "created"} =>
                                   instances[target[u]] # None)
      /\ saving \subseteq Threads
  BY DEF IInv, TypeOK, TypeWorld, TypeHistory, TypeLocal, InstanceMap, ContainerMap, EntriesPresent
<1>l. \A u \in Threads : pc[u] \in Locked => target[u] \in Ids
  BY DEF IInv, LocksHeld
<1>b. \A u, v \in Threads : u # v /\ pc[u] \in Locked /\ pc[v] \in Locked => target[u] # target[v]
  BY Excludes
<1>u. Ready => instances \in Copies
  BY DEF Copies
<1> USE DEF Story
<1>1. ASSUME NEW t \in Threads, Walks(t) PROVE Creates'
  <2>1. pc'[t] = "pulling" => container[target'[t]] = None /\ "gone" \in asked[target'[t]]
    BY <1>u, <1>1 DEF Walks, Named, Kept, Good, Recorded
  <2> QED BY <2>1, <1>1 DEF Walks, Alone, Creates
<1>2. ASSUME NEW t \in Threads, Starts(t) PROVE Creates'
  BY <1>2, <1>l, <1>b DEF Starts, Acts, LeavesRest, Alone, Creates, Locked, SavePoints, Bracketed
<1>3. ASSUME NEW t \in Threads, Halts(t) PROVE Creates'
  BY <1>3, <1>l, <1>b DEF Halts, Acts, LeavesRest, Alone, Creates, Locked, SavePoints, Bracketed
<1>4. ASSUME NEW t \in Threads, Pauses(t) PROVE Creates'
  BY <1>4, <1>l, <1>b DEF Pauses, Acts, LeavesRest, Alone, Creates, Locked, SavePoints, Bracketed
<1>5. ASSUME NEW t \in Threads, Edits(t) PROVE Creates'
  BY <1>5, <1>l, <1>b DEF Edits, Acts, LeavesRest, Alone, Creates, Locked, SavePoints, Bracketed
<1>6. ASSUME NEW t \in Threads, Unmakes(t) PROVE Creates'
  BY <1>6, <1>l, <1>b DEF Unmakes, Acts, LeavesRest, Alone, Creates, Locked, SavePoints, Bracketed
<1>7. ASSUME NEW t \in Threads, Removes(t) PROVE Creates'
  BY <1>7, <1>l, <1>b DEF Removes, Acts, LeavesRest, Alone, Creates, Locked, SavePoints, Bracketed
<1>8. ASSUME NEW t \in Threads, Enters(t) PROVE Creates'
  BY <1>8, <1>l, <1>b DEF Enters, Acts, LeavesRest, Alone, Creates, Locked, SavePoints, Bracketed
<1>9. ASSUME NEW t \in Threads, Makes(t) PROVE Creates'
  <2>1. instances'[target[t]].desired = instances[target[t]].desired
    BY <1>9 DEF Makes, Lasting
  <2> QED BY <1>l, <1>b, <2>1, <1>9 DEF Makes, Acts, LeavesRest, Alone, Creates, Locked
<1>10. ASSUME NEW t \in Threads, Unwinds(t) PROVE Creates'
  BY <1>10, <1>l, <1>b DEF Unwinds, Acts, LeavesRest, Alone, Creates, Locked, SavePoints, Bracketed
<1>11. ASSUME NEW t \in Threads, Registers(t) PROVE Creates'
  BY <1>11, <1>l, <1>b DEF Registers, Replaces, Alone, Creates, Locked, SavePoints, Bracketed
<1>12. ASSUME NEW t \in Threads, Retracts(t) PROVE Creates'
  BY <1>12, <1>l, <1>b DEF Retracts, Replaces, Alone, Creates, Locked, SavePoints, Bracketed
<1>13. ASSUME NEW t \in Threads, NEW saved \in BOOLEAN, Ends(t, saved) PROVE Creates'
  <2>1. \A u \in Threads \ {t} : pc[u] \in Locked => asked'[target[u]] = asked[target[u]]
    BY <1>i, <1>l, <1>b, <1>13 DEF Ends, Replaces, Settle, Locked
  <2> QED BY <2>1, <1>13 DEF Ends, Replaces, Alone, Creates, Locked
<1>14. ASSUME NEW t \in Threads, NEW saved \in BOOLEAN, Flushes(t, saved) PROVE Creates'
  BY <1>14, <1>l, <1>b DEF Flushes, Replaces, Alone, Creates, Locked, SavePoints, Bracketed
<1>15. ASSUME NEW t \in Threads, Snaps(t) PROVE Creates'
  BY <1>15, <1>l, <1>b DEF Snaps, Alone, Creates, Locked, SavePoints, Bracketed
<1>16. ASSUME NEW t \in Threads, Commits(t) PROVE Creates'
  BY <1>16, <1>l, <1>b DEF Commits, Calm, Alone, Creates, Locked, SavePoints, Bracketed
<1>17. ASSUME NEW t \in Threads, NEW i \in Ids, Sheds(t, i) PROVE Creates'
  BY <1>17, <1>l, <1>b DEF Sheds, Calm, Alone, Creates, Locked, SavePoints, Bracketed
<1>18. ASSUME Down PROVE Creates'
  BY <1>18, <1>l, <1>b DEF Down, podman, Creates, Locked, SavePoints, Bracketed
<1>19. ASSUME Outside PROVE Creates'
  BY <1>19, <1>l, <1>b DEF Outside, Creates, Locked, SavePoints, Bracketed
<1> QED BY NextEffect, <1>1, <1>2, <1>3, <1>4, <1>5, <1>6, <1>7, <1>8, <1>9, <1>10, <1>11,
     <1>12, <1>13, <1>14, <1>15, <1>16, <1>17, <1>18, <1>19 DEF Effect, Work, Saves

(* Nobody but the request itself changes its entry between its snapshot    *)
(* and its save.                                                           *)
LEMMA AgreedKept ==
    ASSUME IInv, Shape, Boot, Story, windows = {}, windows' = {}, [Next]_vars
    PROVE  Agreed'
<1>l. \A u \in Threads : pc[u] \in Locked => target[u] \in Ids
  BY DEF IInv, LocksHeld
<1>b. \A u, v \in Threads : u # v /\ pc[u] \in Locked /\ pc[v] \in Locked => target[u] # target[v]
  BY Excludes
<1>z. saving' \subseteq Threads
  BY NextKeeps DEF IInv, TypeOK, TypeLocal
<1> USE DEF Story
<1>1. ASSUME NEW t \in Threads, Walks(t) PROVE Agreed'
  BY <1>1, <1>l, <1>b, <1>z DEF Walks, Alone, Agreed, Locked, SavePoints, Bracketed
<1>2. ASSUME NEW t \in Threads, Starts(t) PROVE Agreed'
  BY <1>2, <1>l, <1>b, <1>z DEF Starts, Acts, LeavesRest, Alone, Agreed, Locked, SavePoints,
     Bracketed
<1>3. ASSUME NEW t \in Threads, Halts(t) PROVE Agreed'
  BY <1>3, <1>l, <1>b, <1>z DEF Halts, Acts, LeavesRest, Alone, Agreed, Locked, SavePoints,
     Bracketed
<1>4. ASSUME NEW t \in Threads, Pauses(t) PROVE Agreed'
  BY <1>4, <1>l, <1>b, <1>z DEF Pauses, Acts, LeavesRest, Alone, Agreed, Locked, SavePoints,
     Bracketed
<1>5. ASSUME NEW t \in Threads, Edits(t) PROVE Agreed'
  BY <1>5, <1>l, <1>b, <1>z DEF Edits, Acts, LeavesRest, Alone, Agreed, Locked, SavePoints,
     Bracketed
<1>6. ASSUME NEW t \in Threads, Unmakes(t) PROVE Agreed'
  BY <1>6, <1>l, <1>b, <1>z DEF Unmakes, Acts, LeavesRest, Alone, Agreed, Locked, SavePoints,
     Bracketed
<1>7. ASSUME NEW t \in Threads, Removes(t) PROVE Agreed'
  BY <1>7, <1>l, <1>b, <1>z DEF Removes, Acts, LeavesRest, Alone, Agreed, Locked, SavePoints,
     Bracketed
<1>8. ASSUME NEW t \in Threads, Enters(t) PROVE Agreed'
  BY <1>8, <1>l, <1>b, <1>z DEF Enters, Acts, LeavesRest, Alone, Agreed, Locked, SavePoints,
     Bracketed
<1>9. ASSUME NEW t \in Threads, Makes(t) PROVE Agreed'
  BY <1>9, <1>l, <1>b, <1>z DEF Makes, Acts, LeavesRest, Alone, Agreed, Locked, SavePoints,
     Bracketed
<1>10. ASSUME NEW t \in Threads, Unwinds(t) PROVE Agreed'
  BY <1>10, <1>l, <1>b, <1>z DEF Unwinds, Acts, LeavesRest, Alone, Agreed, Locked, SavePoints,
     Bracketed
<1>11. ASSUME NEW t \in Threads, Registers(t) PROVE Agreed'
  BY <1>11, <1>l, <1>b, <1>z DEF Registers, Replaces, Alone, Agreed, Locked, SavePoints, Bracketed
<1>12. ASSUME NEW t \in Threads, Retracts(t) PROVE Agreed'
  BY <1>12, <1>l, <1>b, <1>z DEF Retracts, Replaces, Alone, Agreed, Locked, SavePoints, Bracketed
<1>13. ASSUME NEW t \in Threads, NEW saved \in BOOLEAN, Ends(t, saved) PROVE Agreed'
  BY <1>13, <1>l, <1>b, <1>z DEF Ends, Replaces, Alone, Agreed, Locked, SavePoints, Bracketed
<1>14. ASSUME NEW t \in Threads, NEW saved \in BOOLEAN, Flushes(t, saved) PROVE Agreed'
  BY <1>14, <1>l, <1>b, <1>z DEF Flushes, Replaces, Alone, Agreed, Locked, SavePoints, Bracketed
<1>15. ASSUME NEW t \in Threads, Snaps(t) PROVE Agreed'
  <2> SUFFICES ASSUME NEW u \in saving', pc'[u] \in {"entered", "dirty", "rollback"},
                      NEW v \in saving', v \notin older'[u]
               PROVE  view'[v][target'[u]] = instances'[target'[u]]
    BY DEF Agreed
  <2>0. u \in Threads /\ v \in Threads BY <1>z
  <2>1. CASE v = t BY <2>1, <1>15 DEF Snaps
  <2>2. CASE v # t /\ u = t BY <2>0, <2>2, <1>15 DEF Snaps
  <2>3. CASE v # t /\ u # t
    <3>1. /\ u \in saving /\ v \in saving /\ view'[v] = view[v]
          /\ UNCHANGED <<pc, target, instances>>
      BY <2>0, <2>3, <1>15 DEF Snaps, Alone
    <3>2. v \notin older[u] BY <2>0, <2>3, <1>15 DEF Snaps
    <3> QED BY <3>1, <3>2 DEF Agreed
  <2> QED BY <2>1, <2>2, <2>3
<1>16. ASSUME NEW t \in Threads, Commits(t) PROVE Agreed'
  BY <1>16, <1>l, <1>b, <1>z DEF Commits, Calm, Alone, Agreed, Locked, SavePoints, Bracketed
<1>17. ASSUME NEW t \in Threads, NEW i \in Ids, Sheds(t, i) PROVE Agreed'
  BY <1>17, <1>l, <1>b, <1>z DEF Sheds, Calm, Alone, Agreed, Locked, SavePoints, Bracketed
<1>18. ASSUME Down PROVE Agreed'
  BY <1>18, <1>l, <1>b, <1>z DEF Down, podman, Agreed, Locked, SavePoints, Bracketed
<1>19. ASSUME Outside PROVE Agreed'
  BY <1>19, <1>l, <1>b, <1>z DEF Outside, Agreed, Locked, SavePoints, Bracketed
<1> QED BY NextEffect, <1>1, <1>2, <1>3, <1>4, <1>5, <1>6, <1>7, <1>8, <1>9, <1>10, <1>11,
     <1>12, <1>13, <1>14, <1>15, <1>16, <1>17, <1>18, <1>19 DEF Effect, Work, Saves

(* The save that comes before the container leaves no copy without the     *)
(* entry.                                                                  *)
LEMMA KnownKept ==
    ASSUME IInv, Shape, Boot, Story, windows = {}, windows' = {}, [Next]_vars
    PROVE  Known'
<1>i. /\ instances \in [Ids -> Instance \cup {None}] /\ container \in [Ids -> Container \cup {None}]
      /\ file \in [Ids -> Instance \cup {None}]
      /\ asked \in [Ids -> SUBSET {"running", "stopped", "gone"}]
      /\ \A u \in Threads : /\ view[u] \in [Ids -> Instance \cup {None}]
                            /\ live[u] \in [Ids -> Container \cup {None}]
                            /\ (pc[u] \in {"entered", "recorded", "created"} =>
                                   instances[target[u]] # None)
      /\ saving \subseteq Threads
  BY DEF IInv, TypeOK, TypeWorld, TypeHistory, TypeLocal, InstanceMap, ContainerMap, EntriesPresent
<1>l. \A u \in Threads : pc[u] \in Locked => target[u] \in Ids
  BY DEF IInv, LocksHeld
<1>b. \A u, v \in Threads : u # v /\ pc[u] \in Locked /\ pc[v] \in Locked => target[u] # target[v]
  BY Excludes
<1>c. \A m : (m \in Copies) <=>
         (m = file \/ (\E u \in saving : m = view[u]) \/ (Ready /\ m = instances))
  BY DEF Copies
<1>d. \A m : (m \in Copies') <=>
         (m = file' \/ (\E u \in saving' : m = view'[u]) \/ (Ready' /\ m = instances'))
  BY DEF Copies
<1>k. \A m \in Copies' : m \in Copies \/ (Ready' /\ m = instances')
  BY CopiesKept DEF CopiesGrow
<1>z. saving' \subseteq Threads
  BY NextKeeps DEF IInv, TypeOK, TypeLocal
<1>o. Outside => (Ready' <=> Ready)
  BY DEF Outside, Ready
<1>u. Ready => instances \in Copies
  BY DEF Copies
<1> USE DEF Story
<1>1. ASSUME NEW t \in Threads, Walks(t) PROVE Known'
  BY <1>1, <1>k, <1>c, <1>l, <1>b DEF Walks, Alone, Known, Locked, SavePoints, Bracketed
<1>2. ASSUME NEW t \in Threads, Starts(t) PROVE Known'
  BY <1>2, <1>k, <1>c, <1>l, <1>b DEF Starts, Acts, LeavesRest, Alone, Known, Locked,
     SavePoints, Bracketed
<1>3. ASSUME NEW t \in Threads, Halts(t) PROVE Known'
  BY <1>3, <1>k, <1>c, <1>l, <1>b DEF Halts, Acts, LeavesRest, Alone, Known, Locked, SavePoints,
     Bracketed
<1>4. ASSUME NEW t \in Threads, Pauses(t) PROVE Known'
  BY <1>4, <1>k, <1>c, <1>l, <1>b DEF Pauses, Acts, LeavesRest, Alone, Known, Locked,
     SavePoints, Bracketed
<1>5. ASSUME NEW t \in Threads, Edits(t) PROVE Known'
  BY <1>5, <1>k, <1>c, <1>l, <1>b DEF Edits, Acts, LeavesRest, Alone, Known, Locked, SavePoints,
     Bracketed
<1>6. ASSUME NEW t \in Threads, Unmakes(t) PROVE Known'
  BY <1>6, <1>k, <1>c, <1>l, <1>b DEF Unmakes, Acts, LeavesRest, Alone, Known, Locked,
     SavePoints, Bracketed
<1>7. ASSUME NEW t \in Threads, Removes(t) PROVE Known'
  BY <1>7, <1>k, <1>c, <1>l, <1>b DEF Removes, Acts, LeavesRest, Alone, Known, Locked,
     SavePoints, Bracketed
<1>8. ASSUME NEW t \in Threads, Enters(t) PROVE Known'
  BY <1>8, <1>k, <1>c, <1>l, <1>b DEF Enters, Acts, LeavesRest, Alone, Known, Locked,
     SavePoints, Bracketed
<1>9. ASSUME NEW t \in Threads, Makes(t) PROVE Known'
  BY <1>9, <1>k, <1>c, <1>l, <1>b DEF Makes, Acts, LeavesRest, Alone, Known, Locked, SavePoints,
     Bracketed
<1>10. ASSUME NEW t \in Threads, Unwinds(t) PROVE Known'
  BY <1>10, <1>k, <1>c, <1>l, <1>b DEF Unwinds, Acts, LeavesRest, Alone, Known, Locked,
     SavePoints, Bracketed
<1>11. ASSUME NEW t \in Threads, Registers(t) PROVE Known'
  <2>1. instances[target[t]] # None /\ t \in saving /\ older[t] = {}
    BY <1>i, <1>11 DEF Registers, Replaces
  <2>2. \A u \in saving : view[u][target[t]] = instances[target[t]]
    BY <2>1, <1>11 DEF Agreed, Registers
  <2>3. \A m \in Copies' : m[target[t]] # None
    BY <1>d, <1>z, <2>1, <2>2, <1>11 DEF Registers, Replaces, Alone
  <2>4. \A u \in Threads \ {t} : pc'[u] = "recorded" => \A m \in Copies' : m[target'[u]] # None
    BY <1>k, <1>u, <1>11 DEF Registers, Replaces, Alone, Known
  <2> QED BY <2>3, <2>4, <1>11 DEF Known, Registers
<1>12. ASSUME NEW t \in Threads, Retracts(t) PROVE Known'
  BY <1>12, <1>k, <1>c, <1>l, <1>b DEF Retracts, Replaces, Alone, Known, Locked, SavePoints,
     Bracketed
<1>13. ASSUME NEW t \in Threads, NEW saved \in BOOLEAN, Ends(t, saved) PROVE Known'
  BY <1>13, <1>k, <1>c, <1>l, <1>b DEF Ends, Replaces, Alone, Known, Locked, SavePoints, Bracketed
<1>14. ASSUME NEW t \in Threads, NEW saved \in BOOLEAN, Flushes(t, saved) PROVE Known'
  BY <1>14, <1>k, <1>c, <1>l, <1>b DEF Flushes, Replaces, Alone, Known, Locked, SavePoints,
     Bracketed
<1>15. ASSUME NEW t \in Threads, Snaps(t) PROVE Known'
  BY <1>15, <1>k, <1>c, <1>l, <1>b DEF Snaps, Alone, Known, Locked, SavePoints, Bracketed
<1>16. ASSUME NEW t \in Threads, Commits(t) PROVE Known'
  BY <1>16, <1>k, <1>c, <1>l, <1>b DEF Commits, Calm, Alone, Known, Locked, SavePoints, Bracketed
<1>17. ASSUME NEW t \in Threads, NEW i \in Ids, Sheds(t, i) PROVE Known'
  BY <1>17, <1>k, <1>c, <1>l, <1>b DEF Sheds, Calm, Alone, Known, Locked, SavePoints, Bracketed
<1>18. ASSUME Down PROVE Known'
  BY <1>18, <1>k, <1>c, <1>l, <1>b DEF Down, podman, Known, Locked, SavePoints, Bracketed
<1>19. ASSUME Outside PROVE Known'
  BY <1>19, <1>k, <1>c, <1>l, <1>b, <1>o DEF Outside, Known, Locked, SavePoints, Bracketed
<1> QED BY NextEffect, <1>1, <1>2, <1>3, <1>4, <1>5, <1>6, <1>7, <1>8, <1>9, <1>10, <1>11,
     <1>12, <1>13, <1>14, <1>15, <1>16, <1>17, <1>18, <1>19 DEF Effect, Work, Saves

(* An entry is dropped only where there is no container.                   *)
LEMMA NamedKept ==
    ASSUME IInv, Shape, Boot, Story, Removing, windows = {}, windows' = {}, [Next]_vars
    PROVE  Named'
<1>i. /\ instances \in [Ids -> Instance \cup {None}] /\ container \in [Ids -> Container \cup {None}]
      /\ file \in [Ids -> Instance \cup {None}]
      /\ asked \in [Ids -> SUBSET {"running", "stopped", "gone"}]
      /\ \A u \in Threads : /\ view[u] \in [Ids -> Instance \cup {None}]
                            /\ live[u] \in [Ids -> Container \cup {None}]
                            /\ (pc[u] \in {"entered", "recorded", "created"} =>
                                   instances[target[u]] # None)
      /\ saving \subseteq Threads
  BY DEF IInv, TypeOK, TypeWorld, TypeHistory, TypeLocal, InstanceMap, ContainerMap, EntriesPresent
<1>l. \A u \in Threads : pc[u] \in Locked => target[u] \in Ids
  BY DEF IInv, LocksHeld
<1>c. \A m : (m \in Copies) <=>
         (m = file \/ (\E u \in saving : m = view[u]) \/ (Ready /\ m = instances))
  BY DEF Copies
<1>k. \A m \in Copies' : m \in Copies \/ (Ready' /\ m = instances')
  BY CopiesKept DEF CopiesGrow
<1>o. Outside => (Ready' <=> Ready)
  BY DEF Outside, Ready
<1>e. Down => ~Ready'
  BY DEF Down, Ready, podman
<1>u. Ready => instances \in Copies
  BY DEF Copies
<1> USE DEF Story
<1>g. ASSUME \A j \in Ids : container'[j] # None =>
                  /\ container[j] # None \/ \A m \in Copies : m[j] # None
                  /\ Ready' => instances'[j] # None
      PROVE  Named'
  BY <1>g, <1>k DEF Named
<1>h. Ready => \A j \in Ids : container[j] # None => instances[j] # None
  BY <1>u DEF Named
<1>1. ASSUME NEW t \in Threads, Walks(t) PROVE Named'
  BY <1>1, <1>g, <1>h DEF Walks, Alone
<1>2. ASSUME NEW t \in Threads, Starts(t) PROVE Named'
  BY <1>2, <1>g, <1>h DEF Starts, Acts, LeavesRest, Alone
<1>3. ASSUME NEW t \in Threads, Halts(t) PROVE Named'
  BY <1>3, <1>g, <1>h DEF Halts, Acts, LeavesRest, Alone
<1>4. ASSUME NEW t \in Threads, Pauses(t) PROVE Named'
  BY <1>4, <1>g, <1>h DEF Pauses, Acts, LeavesRest, Alone
<1>5. ASSUME NEW t \in Threads, Edits(t) PROVE Named'
  BY <1>5, <1>g, <1>h DEF Edits, Acts, LeavesRest, Alone
<1>6. ASSUME NEW t \in Threads, Unmakes(t) PROVE Named'
  BY <1>6, <1>g, <1>h DEF Unmakes, Acts, LeavesRest, Alone
<1>7. ASSUME NEW t \in Threads, Removes(t) PROVE Named'
  BY <1>7, <1>g, <1>h DEF Removes, Acts, LeavesRest, Alone, Removing
<1>8. ASSUME NEW t \in Threads, Enters(t) PROVE Named'
  BY <1>8, <1>g, <1>h DEF Enters, Acts, LeavesRest, Alone
<1>9. ASSUME NEW t \in Threads, Makes(t) PROVE Named'
  BY <1>9, <1>g, <1>h DEF Makes, Acts, LeavesRest, Alone, Known
<1>10. ASSUME NEW t \in Threads, Unwinds(t) PROVE Named'
  BY <1>10, <1>g, <1>h DEF Unwinds, Acts, LeavesRest, Alone, Creates
<1>11. ASSUME NEW t \in Threads, Registers(t) PROVE Named'
  BY <1>11, <1>g, <1>h DEF Registers, Replaces, Alone
<1>12. ASSUME NEW t \in Threads, Retracts(t) PROVE Named'
  BY <1>12, <1>g, <1>h, <1>l DEF Retracts, Replaces, Alone, Creates
<1>13. ASSUME NEW t \in Threads, NEW saved \in BOOLEAN, Ends(t, saved) PROVE Named'
  BY <1>13, <1>g, <1>h DEF Ends, Replaces, Alone
<1>14. ASSUME NEW t \in Threads, NEW saved \in BOOLEAN, Flushes(t, saved) PROVE Named'
  BY <1>14, <1>g, <1>h DEF Flushes, Replaces, Alone
<1>15. ASSUME NEW t \in Threads, Snaps(t) PROVE Named'
  BY <1>15, <1>g, <1>h DEF Snaps, Alone
<1>16. ASSUME NEW t \in Threads, Commits(t) PROVE Named'
  <2>1. t \notin moved /\ view[t] = file /\ ~Unsaved
    BY <1>16 DEF Commits, Reads, Eligible, Unsaved, Bracketed, Locked
  <2>2. pc[t] = "listed" /\ Eligible(t) BY <1>16 DEF Commits
  <2>3. ASSUME NEW j \in Ids, container[j] # None
        PROVE  /\ file[j] # None /\ live[t][j] # None
               /\ Up(container[j]) => live[t][j].state = "running"
    BY <2>1, <2>2, <2>3, <1>c DEF Reads, Named
  <2>4. ASSUME NEW j \in Ids
        PROVE  /\ instances'[j] = Reconciled(file[j], live[t][j])
               /\ file[j] \in Instance \cup {None} /\ live[t][j] \in Container \cup {None}
    BY <1>i, <2>1, <1>16 DEF Commits
  <2>5. ASSUME NEW j \in Ids, container[j] # None PROVE instances'[j] # None
    BY <2>3, <2>4, <2>5, Reconciles
  <2> QED BY <1>g, <2>5, <1>16 DEF Commits
<1>17. ASSUME NEW t \in Threads, NEW i \in Ids, Sheds(t, i) PROVE Named'
  BY <1>17, <1>g, <1>h DEF Sheds, Calm, Alone
<1>18. ASSUME Down PROVE Named'
  BY <1>18, <1>g, <1>h, <1>e DEF Down, podman
<1>19. ASSUME Outside PROVE Named'
  BY <1>19, <1>g, <1>h, <1>o DEF Outside
<1> QED BY NextEffect, <1>1, <1>2, <1>3, <1>4, <1>5, <1>6, <1>7, <1>8, <1>9, <1>10, <1>11,
     <1>12, <1>13, <1>14, <1>15, <1>16, <1>17, <1>18, <1>19 DEF Effect, Work, Saves

(* When the answer settles what was asked, all copies already agree on it. *)
LEMMA KeptKept ==
    ASSUME IInv, Shape, Boot, Story, windows = {}, windows' = {}, [Next]_vars
    PROVE  Kept'
<1>i. /\ instances \in [Ids -> Instance \cup {None}] /\ container \in [Ids -> Container \cup {None}]
      /\ file \in [Ids -> Instance \cup {None}]
      /\ asked \in [Ids -> SUBSET {"running", "stopped", "gone"}]
      /\ \A u \in Threads : /\ view[u] \in [Ids -> Instance \cup {None}]
                            /\ live[u] \in [Ids -> Container \cup {None}]
                            /\ (pc[u] \in {"entered", "recorded", "created"} =>
                                   instances[target[u]] # None)
      /\ saving \subseteq Threads
  BY DEF IInv, TypeOK, TypeWorld, TypeHistory, TypeLocal, InstanceMap, ContainerMap, EntriesPresent
<1>l. \A u \in Threads : pc[u] \in Locked => target[u] \in Ids
  BY DEF IInv, LocksHeld
<1>c. \A m : (m \in Copies) <=>
         (m = file \/ (\E u \in saving : m = view[u]) \/ (Ready /\ m = instances))
  BY DEF Copies
<1>d. \A m : (m \in Copies') <=>
         (m = file' \/ (\E u \in saving' : m = view'[u]) \/ (Ready' /\ m = instances'))
  BY DEF Copies
<1>k. \A m \in Copies' : m \in Copies \/ (Ready' /\ m = instances')
  BY CopiesKept DEF CopiesGrow
<1>z. saving' \subseteq Threads
  BY NextKeeps DEF IInv, TypeOK, TypeLocal
<1>o. Outside => (Ready' <=> Ready)
  BY DEF Outside, Ready
<1>e. Down => ~Ready'
  BY DEF Down, Ready, podman
<1>u. Ready => instances \in Copies
  BY DEF Copies
<1> USE DEF Story
<1>g. ASSUME \A j \in Ids : asked[j] \subseteq asked'[j],
             Ready' => \A j \in Ids : /\ Recorded(instances'[j]) \in asked'[j]
                                      /\ Creating(instances'[j]) => "gone" \in asked'[j]
      PROVE  Kept'
  <2> SUFFICES ASSUME NEW j \in Ids, NEW m \in Copies'
               PROVE  Recorded(m[j]) \in asked'[j] /\ (Creating(m[j]) => "gone" \in asked'[j])
    BY DEF Kept, Good
  <2>1. CASE m \in Copies BY <1>g, <2>1 DEF Kept, Good
  <2>2. CASE Ready' /\ m = instances' BY <1>g, <2>2
  <2> QED BY <1>k, <2>1, <2>2
<1>h. Ready => \A j \in Ids : /\ Recorded(instances[j]) \in asked[j]
                              /\ Creating(instances[j]) => "gone" \in asked[j]
  BY <1>u DEF Kept, Good
<1>1. ASSUME NEW t \in Threads, Walks(t) PROVE Kept'
  BY <1>1, <1>g, <1>h DEF Walks, Alone
<1>2. ASSUME NEW t \in Threads, Starts(t) PROVE Kept'
  <2>1. \A j \in Ids : asked[j] \subseteq asked'[j]
    BY <1>2 DEF Starts, Acts, LeavesRest, Alone
  <2>2. Ready' => \A j \in Ids : /\ Recorded(instances'[j]) \in asked'[j]
                                 /\ Creating(instances'[j]) => "gone" \in asked'[j]
    BY <1>h, <2>1, <1>2 DEF Starts, Acts, LeavesRest, Alone, Recorded, Creating
  <2> QED BY <1>g, <2>1, <2>2
<1>3. ASSUME NEW t \in Threads, Halts(t) PROVE Kept'
  <2>1. \A j \in Ids : asked[j] \subseteq asked'[j]
    BY <1>3 DEF Halts, Acts, LeavesRest, Alone
  <2>2. Ready' => \A j \in Ids : /\ Recorded(instances'[j]) \in asked'[j]
                                 /\ Creating(instances'[j]) => "gone" \in asked'[j]
    BY <1>h, <2>1, <1>3 DEF Halts, Acts, LeavesRest, Alone, Recorded, Creating
  <2> QED BY <1>g, <2>1, <2>2
<1>4. ASSUME NEW t \in Threads, Pauses(t) PROVE Kept'
  BY <1>4, <1>g, <1>h DEF Pauses, Acts, LeavesRest, Alone
<1>5. ASSUME NEW t \in Threads, Edits(t) PROVE Kept'
  <2>1. \A j \in Ids : asked[j] \subseteq asked'[j]
    BY <1>5 DEF Edits, Acts, LeavesRest, Alone
  <2>2. Ready' => \A j \in Ids : /\ Recorded(instances'[j]) \in asked'[j]
                                 /\ Creating(instances'[j]) => "gone" \in asked'[j]
    BY <1>h, <2>1, <1>5 DEF Edits, Acts, LeavesRest, Alone, Recorded, Creating
  <2> QED BY <1>g, <2>1, <2>2
<1>6. ASSUME NEW t \in Threads, Unmakes(t) PROVE Kept'
  BY <1>6, <1>g, <1>h DEF Unmakes, Acts, LeavesRest, Alone
<1>7. ASSUME NEW t \in Threads, Removes(t) PROVE Kept'
  <2>1. \A j \in Ids : asked[j] \subseteq asked'[j]
    BY <1>7 DEF Removes, Acts, LeavesRest, Alone
  <2>2. Ready' => \A j \in Ids : /\ Recorded(instances'[j]) \in asked'[j]
                                 /\ Creating(instances'[j]) => "gone" \in asked'[j]
    BY <1>h, <2>1, <1>7 DEF Removes, Acts, LeavesRest, Alone, Recorded, Creating
  <2> QED BY <1>g, <2>1, <2>2
<1>8. ASSUME NEW t \in Threads, Enters(t) PROVE Kept'
  <2>1. \A j \in Ids : asked[j] \subseteq asked'[j]
    BY <1>8 DEF Enters, Acts, LeavesRest, Alone
  <2>2. Ready' => \A j \in Ids : /\ Recorded(instances'[j]) \in asked'[j]
                                 /\ Creating(instances'[j]) => "gone" \in asked'[j]
    BY <1>h, <2>1, <1>8 DEF Enters, Acts, LeavesRest, Alone, Recorded, Creating, Creates
  <2> QED BY <1>g, <2>1, <2>2
<1>9. ASSUME NEW t \in Threads, Makes(t) PROVE Kept'
  <2>1. \A j \in Ids : asked[j] \subseteq asked'[j]
    BY <1>9 DEF Makes, Acts, LeavesRest, Alone
  <2>2. Ready' => \A j \in Ids : /\ Recorded(instances'[j]) \in asked'[j]
                                 /\ Creating(instances'[j]) => "gone" \in asked'[j]
    BY <1>h, <2>1, <1>9 DEF Makes, Acts, LeavesRest, Alone, Recorded, Creating, Lasting
  <2> QED BY <1>g, <2>1, <2>2
<1>10. ASSUME NEW t \in Threads, Unwinds(t) PROVE Kept'
  <2>1. \A j \in Ids : asked[j] \subseteq asked'[j]
    BY <1>10 DEF Unwinds, Acts, LeavesRest, Alone
  <2>2. Ready' => \A j \in Ids : /\ Recorded(instances'[j]) \in asked'[j]
                                 /\ Creating(instances'[j]) => "gone" \in asked'[j]
    BY <1>h, <2>1, <1>10 DEF Unwinds, Acts, LeavesRest, Alone, Recorded, Creating, Creates
  <2> QED BY <1>g, <2>1, <2>2
<1>11. ASSUME NEW t \in Threads, Registers(t) PROVE Kept'
  BY <1>11, <1>g, <1>h DEF Registers, Replaces, Alone
<1>12. ASSUME NEW t \in Threads, Retracts(t) PROVE Kept'
  <2>1. \A j \in Ids : asked[j] \subseteq asked'[j]
    BY <1>12 DEF Retracts, Replaces, Alone
  <2>2. Ready' => \A j \in Ids : /\ Recorded(instances'[j]) \in asked'[j]
                                 /\ Creating(instances'[j]) => "gone" \in asked'[j]
    BY <1>h, <2>1, <1>12 DEF Retracts, Replaces, Alone, Recorded, Creating, Creates
  <2> QED BY <1>g, <2>1, <2>2
<1>13. ASSUME NEW t \in Threads, NEW saved \in BOOLEAN, Ends(t, saved) PROVE Kept'
  <2>1. CASE asked' = asked
    BY <1>g, <1>h, <2>1, <1>13 DEF Ends, Replaces
  <2>2. CASE asked' # asked
    <3> DEFINE e == IF pc[t] = "rollback" THEN "gone" ELSE Intent(op[t])
    <3>1. /\ saved /\ op[t] \in Intentional /\ (pc[t] = "rollback" \/ t \notin failed)
          /\ asked' = [asked EXCEPT ![target[t]] = {e}]
          /\ pc[t] \in {"dirty", "rollback"}
      BY <2>2, <1>13 DEF Ends, Settle
    <3>2. /\ t \in saving /\ older[t] = {} /\ file' = view[t]
          /\ instances' = instances /\ target[t] \in Ids
      BY <3>1, <1>l, <1>13 DEF Ends, Replaces, Locked
    <3>3. Recorded(instances[target[t]]) = e /\ ~Creating(instances[target[t]])
      BY <3>1 DEF Done, Creates, Recorded, Creating
    <3>4. \A u \in saving : view[u][target[t]] = instances[target[t]]
      BY <3>1, <3>2 DEF Agreed
    <3>5. \A m \in Copies' : m[target[t]] = instances[target[t]]
      BY <1>d, <1>z, <3>2, <3>4, <1>13 DEF Ends, Replaces, Alone
    <3>6. asked'[target[t]] = {e} /\ \A j \in Ids \ {target[t]} : asked'[j] = asked[j]
      BY <1>i, <3>1, <3>2
    <3>7. \A m \in Copies' : m \in Copies
      BY <1>k, <1>u, <3>2, <1>13 DEF Ends, Replaces
    <3> HIDE DEF e
    <3> QED BY <3>2, <3>3, <3>5, <3>6, <3>7 DEF Kept, Good
  <2> QED BY <2>1, <2>2
<1>14. ASSUME NEW t \in Threads, NEW saved \in BOOLEAN, Flushes(t, saved) PROVE Kept'
  BY <1>14, <1>g, <1>h DEF Flushes, Replaces, Alone
<1>15. ASSUME NEW t \in Threads, Snaps(t) PROVE Kept'
  BY <1>15, <1>g, <1>h DEF Snaps, Alone
<1>16. ASSUME NEW t \in Threads, Commits(t) PROVE Kept'
  <2>1. t \notin moved /\ view[t] = file /\ ~Unsaved
    BY <1>16 DEF Commits, Reads, Eligible, Unsaved, Bracketed, Locked
  <2>2. pc[t] = "listed" /\ Eligible(t) BY <1>16 DEF Commits
  <2>3. ASSUME NEW j \in Ids
        PROVE  /\ live[t][j] # None => file[j] # None
               /\ Recorded(file[j]) \in asked[j]
               /\ Creating(file[j]) => "gone" \in asked[j]
    BY <2>2, <1>c DEF Reads, Kept, Good
  <2>4. ASSUME NEW j \in Ids
        PROVE  /\ instances'[j] = Reconciled(file[j], live[t][j])
               /\ file[j] \in Instance \cup {None} /\ live[t][j] \in Container \cup {None}
    BY <1>i, <2>1, <1>16 DEF Commits
  <2>5. ASSUME NEW j \in Ids
        PROVE  /\ Recorded(instances'[j]) \in asked[j]
               /\ Creating(instances'[j]) => "gone" \in asked[j]
    <3>1. CASE file[j] = None \/ (live[t][j] = None /\ Creating(file[j]))
      <4>1. instances'[j] = None BY <2>3, <2>4, <3>1, Reconciles DEF Creating
      <4> QED BY <2>3, <3>1, <4>1 DEF Recorded, Creating
    <3>2. CASE file[j] # None /\ live[t][j] # None
      <4>1. /\ instances'[j] # None /\ instances'[j].desired = file[j].desired
            /\ instances'[j].status = StatusFrom(live[t][j])
        BY <2>4, <3>2, Reconciles
      <4> QED BY <2>3, <3>2, <4>1 DEF Recorded, Creating, StatusFrom
    <3>3. CASE file[j] # None /\ live[t][j] = None /\ ~Creating(file[j])
      <4>1. /\ instances'[j] # None /\ instances'[j].desired = file[j].desired
            /\ ~Creating(instances'[j])
        BY <2>4, <3>3, Reconciles
      <4> QED BY <2>3, <3>3, <4>1 DEF Recorded, Creating
    <3> QED BY <3>1, <3>2, <3>3
  <2> QED BY <1>g, <2>5, <1>16 DEF Commits, Calm
<1>17. ASSUME NEW t \in Threads, NEW i \in Ids, Sheds(t, i) PROVE Kept'
  <2>1. ASSUME NEW j \in Ids
        PROVE  /\ Recorded(instances'[j]) \in asked[j]
               /\ Creating(instances'[j]) => "gone" \in asked[j]
    <3>0. /\ Recorded(instances[j]) \in asked[j]
          /\ Creating(instances[j]) => "gone" \in asked[j]
      BY <1>h, <1>17 DEF Sheds
    <3>1. CASE j # i
      <4>1. instances'[j] = instances[j] BY <3>1, <1>17 DEF Sheds
      <4> QED BY <3>0, <4>1
    <3>2. CASE j = i
      <4>1. /\ (instances'[i] = None) <=> (instances[i] = None)
            /\ instances[i] # None => /\ instances'[i].desired = instances[i].desired
                                      /\ (Creating(instances'[i]) => Creating(instances[i]))
        BY <1>17 DEF Sheds
      <4> QED BY <3>0, <3>2, <4>1 DEF Recorded, Creating
    <3> QED BY <3>1, <3>2
  <2> QED BY <1>g, <2>1, <1>17 DEF Sheds, Calm
<1>18. ASSUME Down PROVE Kept'
  <2>1. \A j \in Ids : asked[j] \subseteq asked'[j]
    BY <1>18 DEF Down, podman
  <2>2. Ready' => \A j \in Ids : /\ Recorded(instances'[j]) \in asked'[j]
                                 /\ Creating(instances'[j]) => "gone" \in asked'[j]
    BY <1>h, <2>1, <1>e, <1>18 DEF Down, podman, Recorded, Creating
  <2> QED BY <1>g, <2>1, <2>2
<1>19. ASSUME Outside PROVE Kept'
  <2>1. \A j \in Ids : asked[j] \subseteq asked'[j]
    BY <1>19 DEF Outside
  <2>2. Ready' => \A j \in Ids : /\ Recorded(instances'[j]) \in asked'[j]
                                 /\ Creating(instances'[j]) => "gone" \in asked'[j]
    BY <1>h, <2>1, <1>o, <1>19 DEF Outside, Recorded, Creating
  <2> QED BY <1>g, <2>1, <2>2
<1> QED BY NextEffect, <1>1, <1>2, <1>3, <1>4, <1>5, <1>6, <1>7, <1>8, <1>9, <1>10, <1>11,
     <1>12, <1>13, <1>14, <1>15, <1>16, <1>17, <1>18, <1>19 DEF Effect, Work, Saves

LEMMA DoneKept ==
    ASSUME IInv, Shape, Boot, Story, windows = {}, windows' = {}, [Next]_vars
    PROVE  Done'
<1>l. \A u \in Threads : pc[u] \in Locked => target[u] \in Ids
  BY DEF IInv, LocksHeld
<1>b. \A u, v \in Threads : u # v /\ pc[u] \in Locked /\ pc[v] \in Locked => target[u] # target[v]
  BY Excludes
<1> USE DEF Story
<1>1. ASSUME NEW t \in Threads, Walks(t) PROVE Done'
  BY <1>1, <1>l, <1>b DEF Walks, Alone, Done, Locked, SavePoints, Bracketed
<1>2. ASSUME NEW t \in Threads, Starts(t) PROVE Done'
  <2>1. op[t] \in Intentional =>
          /\ Recorded(instances'[target[t]]) = Intent(op[t]) /\ ~Creating(instances'[target[t]])
          /\ op[t] \notin {"stop", "createStopped"}
    BY <1>2 DEF Starts, Intent, Recorded, Creating
  <2> QED BY <1>l, <1>b, <2>1, <1>2 DEF Starts, Acts, LeavesRest, Alone, Done, Locked
<1>3. ASSUME NEW t \in Threads, Halts(t) PROVE Done'
  <2>1. Recorded(instances'[target[t]]) = Intent(op[t]) /\ ~Creating(instances'[target[t]])
    BY <1>3 DEF Halts, Intent, Recorded, Creating
  <2> QED BY <1>l, <1>b, <2>1, <1>3 DEF Halts, Acts, LeavesRest, Alone, Done, Locked
<1>4. ASSUME NEW t \in Threads, Pauses(t) PROVE Done'
  BY <1>4, <1>l, <1>b DEF Pauses, Acts, LeavesRest, Alone, Done, Locked, SavePoints, Bracketed
<1>5. ASSUME NEW t \in Threads, Edits(t) PROVE Done'
  BY <1>5, <1>l, <1>b DEF Edits, Acts, LeavesRest, Alone, Done, Locked, SavePoints, Bracketed
<1>6. ASSUME NEW t \in Threads, Unmakes(t) PROVE Done'
  BY <1>6, <1>l, <1>b DEF Unmakes, Acts, LeavesRest, Alone, Done, Locked, SavePoints, Bracketed
<1>7. ASSUME NEW t \in Threads, Removes(t) PROVE Done'
  <2>1. /\ Recorded(instances'[target[t]]) = Intent(op[t]) /\ ~Creating(instances'[target[t]])
        /\ op[t] \notin {"stop", "createStopped"}
    BY <1>7 DEF Removes, Intent, Recorded, Creating
  <2> QED BY <1>l, <1>b, <2>1, <1>7 DEF Removes, Acts, LeavesRest, Alone, Done, Locked
<1>8. ASSUME NEW t \in Threads, Enters(t) PROVE Done'
  BY <1>8, <1>l, <1>b DEF Enters, Acts, LeavesRest, Alone, Done, Locked, SavePoints, Bracketed
<1>9. ASSUME NEW t \in Threads, Makes(t) PROVE Done'
  <2>1. Recorded(instances'[target[t]]) = Intent(op[t]) /\ ~Creating(instances'[target[t]])
    BY <1>9 DEF Makes, Lasting, Creates, Recorded, Creating
  <2> QED BY <1>l, <1>b, <2>1, <1>9 DEF Makes, Acts, LeavesRest, Alone, Done, Locked
<1>10. ASSUME NEW t \in Threads, Unwinds(t) PROVE Done'
  BY <1>10, <1>l, <1>b DEF Unwinds, Acts, LeavesRest, Alone, Done, Locked, SavePoints, Bracketed
<1>11. ASSUME NEW t \in Threads, Registers(t) PROVE Done'
  BY <1>11, <1>l, <1>b DEF Registers, Replaces, Alone, Done, Locked, SavePoints, Bracketed
<1>12. ASSUME NEW t \in Threads, Retracts(t) PROVE Done'
  BY <1>12, <1>l, <1>b DEF Retracts, Replaces, Alone, Done, Locked, SavePoints, Bracketed
<1>13. ASSUME NEW t \in Threads, NEW saved \in BOOLEAN, Ends(t, saved) PROVE Done'
  BY <1>13, <1>l, <1>b DEF Ends, Replaces, Alone, Done, Locked, SavePoints, Bracketed
<1>14. ASSUME NEW t \in Threads, NEW saved \in BOOLEAN, Flushes(t, saved) PROVE Done'
  BY <1>14, <1>l, <1>b DEF Flushes, Replaces, Alone, Done, Locked, SavePoints, Bracketed
<1>15. ASSUME NEW t \in Threads, Snaps(t) PROVE Done'
  BY <1>15, <1>l, <1>b DEF Snaps, Alone, Done, Locked, SavePoints, Bracketed
<1>16. ASSUME NEW t \in Threads, Commits(t) PROVE Done'
  BY <1>16, <1>l, <1>b DEF Commits, Calm, Alone, Done, Locked, SavePoints, Bracketed
<1>17. ASSUME NEW t \in Threads, NEW i \in Ids, Sheds(t, i) PROVE Done'
  BY <1>17, <1>l, <1>b DEF Sheds, Calm, Alone, Done, Locked, SavePoints, Bracketed
<1>18. ASSUME Down PROVE Done'
  BY <1>18, <1>l, <1>b DEF Down, podman, Done, Locked, SavePoints, Bracketed
<1>19. ASSUME Outside PROVE Done'
  BY <1>19, <1>l, <1>b DEF Outside, Done, Locked, SavePoints, Bracketed
<1> QED BY NextEffect, <1>1, <1>2, <1>3, <1>4, <1>5, <1>6, <1>7, <1>8, <1>9, <1>10, <1>11,
     <1>12, <1>13, <1>14, <1>15, <1>16, <1>17, <1>18, <1>19 DEF Effect, Work, Saves

LEMMA StoppedKept ==
    ASSUME IInv, Shape, Boot, Story, windows = {}, windows' = {}, [Next]_vars
    PROVE  Stopped'
<1>i. /\ instances \in [Ids -> Instance \cup {None}] /\ container \in [Ids -> Container \cup {None}]
      /\ file \in [Ids -> Instance \cup {None}]
      /\ asked \in [Ids -> SUBSET {"running", "stopped", "gone"}]
      /\ \A u \in Threads : /\ view[u] \in [Ids -> Instance \cup {None}]
                            /\ live[u] \in [Ids -> Container \cup {None}]
                            /\ (pc[u] \in {"entered", "recorded", "created"} =>
                                   instances[target[u]] # None)
      /\ saving \subseteq Threads
  BY DEF IInv, TypeOK, TypeWorld, TypeHistory, TypeLocal, InstanceMap, ContainerMap, EntriesPresent
<1>l. \A u \in Threads : pc[u] \in Locked => target[u] \in Ids
  BY DEF IInv, LocksHeld
<1> USE DEF Story
<1>1. ASSUME NEW t \in Threads, Walks(t) PROVE Stopped'
  BY <1>1 DEF Walks, Alone, Stopped
<1>2. ASSUME NEW t \in Threads, Starts(t) PROVE Stopped'
  BY <1>2 DEF Starts, Acts, LeavesRest, Alone, Stopped
<1>3. ASSUME NEW t \in Threads, Halts(t) PROVE Stopped'
  BY <1>3 DEF Halts, Acts, LeavesRest, Alone, Stopped
<1>4. ASSUME NEW t \in Threads, Pauses(t) PROVE Stopped'
  BY <1>4 DEF Pauses, Acts, LeavesRest, Alone, Stopped
<1>5. ASSUME NEW t \in Threads, Edits(t) PROVE Stopped'
  BY <1>5 DEF Edits, Acts, LeavesRest, Alone, Stopped
<1>6. ASSUME NEW t \in Threads, Unmakes(t) PROVE Stopped'
  BY <1>6 DEF Unmakes, Acts, LeavesRest, Alone, Up, Stopped
<1>7. ASSUME NEW t \in Threads, Removes(t) PROVE Stopped'
  BY <1>7 DEF Removes, Acts, LeavesRest, Alone, Stopped
<1>8. ASSUME NEW t \in Threads, Enters(t) PROVE Stopped'
  BY <1>8 DEF Enters, Acts, LeavesRest, Alone, Creates, Up, Stopped
<1>9. ASSUME NEW t \in Threads, Makes(t) PROVE Stopped'
  BY <1>9 DEF Makes, Acts, LeavesRest, Alone, Stopped
<1>10. ASSUME NEW t \in Threads, Unwinds(t) PROVE Stopped'
  BY <1>10 DEF Unwinds, Acts, LeavesRest, Alone, Stopped
<1>11. ASSUME NEW t \in Threads, Registers(t) PROVE Stopped'
  BY <1>11 DEF Registers, Replaces, Alone, Stopped
<1>12. ASSUME NEW t \in Threads, Retracts(t) PROVE Stopped'
  BY <1>12 DEF Retracts, Replaces, Alone, Stopped
<1>13. ASSUME NEW t \in Threads, NEW saved \in BOOLEAN, Ends(t, saved) PROVE Stopped'
  <2>1. CASE asked' = asked BY <2>1, <1>13 DEF Ends, Replaces, Stopped
  <2>2. CASE asked' # asked
    <3> DEFINE e == IF pc[t] = "rollback" THEN "gone" ELSE Intent(op[t])
    <3>1. /\ op[t] \in Intentional /\ (pc[t] = "rollback" \/ t \notin failed)
          /\ asked' = [asked EXCEPT ![target[t]] = {e}]
          /\ pc[t] \in {"dirty", "rollback"}
      BY <2>2, <1>13 DEF Ends, Settle
    <3>2. target[t] \in Ids /\ container' = container BY <3>1, <1>l, <1>13 DEF Ends, Replaces,
         Locked
    <3>3. asked'[target[t]] = {e} /\ \A j \in Ids \ {target[t]} : asked'[j] = asked[j]
      BY <1>i, <3>1, <3>2
    <3>4. e = "stopped" => pc[t] = "dirty" /\ op[t] \in {"stop", "createStopped"}
      BY <3>1, ManagerAssumption DEF Intentional, Intent, Transitions, Creations, Passes
    <3>5. e = "stopped" => ~Up(container[target[t]])
      BY <3>1, <3>4 DEF Done
    <3> HIDE DEF e
    <3> QED BY <3>2, <3>3, <3>5 DEF Stopped
  <2> QED BY <2>1, <2>2
<1>14. ASSUME NEW t \in Threads, NEW saved \in BOOLEAN, Flushes(t, saved) PROVE Stopped'
  BY <1>14 DEF Flushes, Replaces, Alone, Stopped
<1>15. ASSUME NEW t \in Threads, Snaps(t) PROVE Stopped'
  BY <1>15 DEF Snaps, Alone, Stopped
<1>16. ASSUME NEW t \in Threads, Commits(t) PROVE Stopped'
  BY <1>16 DEF Commits, Calm, Alone, Stopped
<1>17. ASSUME NEW t \in Threads, NEW i \in Ids, Sheds(t, i) PROVE Stopped'
  BY <1>17 DEF Sheds, Calm, Alone, Stopped
<1>18. ASSUME Down PROVE Stopped'
  BY <1>18 DEF Down, podman, Stopped
<1>19. ASSUME Outside PROVE Stopped'
  BY <1>19 DEF Outside, Stopped
<1> QED BY NextEffect, <1>1, <1>2, <1>3, <1>4, <1>5, <1>6, <1>7, <1>8, <1>9, <1>10, <1>11,
     <1>12, <1>13, <1>14, <1>15, <1>16, <1>17, <1>18, <1>19 DEF Effect, Work, Saves

LEMMA RunningKept ==
    ASSUME IInv, Shape, Boot, Story, Removing, windows = {}, windows' = {}, [Next]_vars
    PROVE  Running'
<1>i. /\ instances \in [Ids -> Instance \cup {None}] /\ container \in [Ids -> Container \cup {None}]
      /\ file \in [Ids -> Instance \cup {None}]
      /\ asked \in [Ids -> SUBSET {"running", "stopped", "gone"}]
      /\ \A u \in Threads : /\ view[u] \in [Ids -> Instance \cup {None}]
                            /\ live[u] \in [Ids -> Container \cup {None}]
                            /\ (pc[u] \in {"entered", "recorded", "created"} =>
                                   instances[target[u]] # None)
      /\ saving \subseteq Threads
  BY DEF IInv, TypeOK, TypeWorld, TypeHistory, TypeLocal, InstanceMap, ContainerMap, EntriesPresent
<1>l. \A u \in Threads : pc[u] \in Locked => target[u] \in Ids
  BY DEF IInv, LocksHeld
<1>c. \A m : (m \in Copies) <=>
         (m = file \/ (\E u \in saving : m = view[u]) \/ (Ready /\ m = instances))
  BY DEF Copies
<1>o. Outside => (Ready' <=> Ready)
  BY DEF Outside, Ready
<1>e. Down => ~Ready'
  BY DEF Down, Ready, podman
<1> USE DEF Story
<1>1. ASSUME NEW t \in Threads, Walks(t) PROVE Running'
  BY <1>1 DEF Walks, Alone, Running
<1>2. ASSUME NEW t \in Threads, Starts(t) PROVE Running'
  BY <1>2 DEF Starts, Acts, LeavesRest, Alone, Running
<1>3. ASSUME NEW t \in Threads, Halts(t) PROVE Running'
  BY <1>3 DEF Halts, Acts, LeavesRest, Alone, Running
<1>4. ASSUME NEW t \in Threads, Pauses(t) PROVE Running'
  BY <1>4 DEF Pauses, Acts, LeavesRest, Alone, Running
<1>5. ASSUME NEW t \in Threads, Edits(t) PROVE Running'
  BY <1>5 DEF Edits, Acts, LeavesRest, Alone, Running
<1>6. ASSUME NEW t \in Threads, Unmakes(t) PROVE Running'
  BY <1>6 DEF Unmakes, Acts, LeavesRest, Alone, Up, Running
<1>7. ASSUME NEW t \in Threads, Removes(t) PROVE Running'
  BY <1>7 DEF Removes, Acts, LeavesRest, Alone, Removing, Up, Running
<1>8. ASSUME NEW t \in Threads, Enters(t) PROVE Running'
  BY <1>8 DEF Enters, Acts, LeavesRest, Alone, Creates, Up, Running
<1>9. ASSUME NEW t \in Threads, Makes(t) PROVE Running'
  BY <1>9 DEF Makes, Acts, LeavesRest, Alone, Running
<1>10. ASSUME NEW t \in Threads, Unwinds(t) PROVE Running'
  BY <1>10 DEF Unwinds, Acts, LeavesRest, Alone, Creates, Up, Running
<1>11. ASSUME NEW t \in Threads, Registers(t) PROVE Running'
  BY <1>11 DEF Registers, Replaces, Alone, Running
<1>12. ASSUME NEW t \in Threads, Retracts(t) PROVE Running'
  BY <1>12, <1>l DEF Retracts, Replaces, Alone, Creates, Up, Locked, Running
<1>13. ASSUME NEW t \in Threads, NEW saved \in BOOLEAN, Ends(t, saved) PROVE Running'
  BY <1>13 DEF Ends, Replaces, Alone, Running
<1>14. ASSUME NEW t \in Threads, NEW saved \in BOOLEAN, Flushes(t, saved) PROVE Running'
  BY <1>14 DEF Flushes, Replaces, Alone, Running
<1>15. ASSUME NEW t \in Threads, Snaps(t) PROVE Running'
  BY <1>15 DEF Snaps, Alone, Running
<1>16. ASSUME NEW t \in Threads, Commits(t) PROVE Running'
  <2>1. t \notin moved /\ view[t] = file /\ ~Unsaved
    BY <1>16 DEF Commits, Reads, Eligible, Unsaved, Bracketed, Locked
  <2>2. pc[t] = "listed" /\ Eligible(t) BY <1>16 DEF Commits
  <2>3. ASSUME NEW j \in Ids, container[j] # None
        PROVE  /\ file[j] # None /\ live[t][j] # None
               /\ Up(container[j]) => live[t][j].state = "running"
    BY <2>1, <2>2, <2>3, <1>c DEF Reads, Named
  <2>4. ASSUME NEW j \in Ids
        PROVE  /\ instances'[j] = Reconciled(file[j], live[t][j])
               /\ file[j] \in Instance \cup {None} /\ live[t][j] \in Container \cup {None}
    BY <1>i, <2>1, <1>16 DEF Commits
  <2>5. ASSUME NEW j \in Ids, Up(container[j])
        PROVE  instances'[j] # None /\ instances'[j].status = "running"
    <3>1. file[j] # None /\ live[t][j] # None /\ live[t][j].state = "running"
      BY <2>3, <2>5 DEF Up
    <3> QED BY <2>4, <3>1, Reconciles DEF StatusFrom
  <2> QED BY <2>5, <1>16 DEF Commits, Running
<1>17. ASSUME NEW t \in Threads, NEW i \in Ids, Sheds(t, i) PROVE Running'
  BY <1>17 DEF Sheds, Calm, Alone, Running
<1>18. ASSUME Down PROVE Running'
  BY <1>18, <1>e DEF Down, podman, Running
<1>19. ASSUME Outside PROVE Running'
  BY <1>19, <1>o DEF Outside, Running
<1> QED BY NextEffect, <1>1, <1>2, <1>3, <1>4, <1>5, <1>6, <1>7, <1>8, <1>9, <1>10, <1>11,
     <1>12, <1>13, <1>14, <1>15, <1>16, <1>17, <1>18, <1>19 DEF Effect, Work, Saves

LEMMA HalfwayKept ==
    ASSUME IInv, Shape, Boot, Story, windows = {}, windows' = {}, [Next]_vars
    PROVE  Halfway'
<1>l. \A u \in Threads : pc[u] \in Locked => target[u] \in Ids
  BY DEF IInv, LocksHeld
<1>b. \A u, v \in Threads : u # v /\ pc[u] \in Locked /\ pc[v] \in Locked => target[u] # target[v]
  BY Excludes
<1> USE DEF Story
<1>1. ASSUME NEW t \in Threads, Walks(t) PROVE Halfway'
  BY <1>1, <1>l, <1>b DEF Walks, Alone, Halfway, Locked, SavePoints, Bracketed
<1>2. ASSUME NEW t \in Threads, Starts(t) PROVE Halfway'
  BY <1>2, <1>l, <1>b DEF Starts, Acts, LeavesRest, Alone, Halfway, Locked, SavePoints, Bracketed
<1>3. ASSUME NEW t \in Threads, Halts(t) PROVE Halfway'
  BY <1>3, <1>l, <1>b DEF Halts, Acts, LeavesRest, Alone, Halfway, Locked, SavePoints, Bracketed
<1>4. ASSUME NEW t \in Threads, Pauses(t) PROVE Halfway'
  BY <1>4, <1>l, <1>b DEF Pauses, Acts, LeavesRest, Alone, Halfway, Locked, SavePoints, Bracketed
<1>5. ASSUME NEW t \in Threads, Edits(t) PROVE Halfway'
  BY <1>5, <1>l, <1>b DEF Edits, Acts, LeavesRest, Alone, Halfway, Locked, SavePoints, Bracketed
<1>6. ASSUME NEW t \in Threads, Unmakes(t) PROVE Halfway'
  BY <1>6, <1>l, <1>b DEF Unmakes, Acts, LeavesRest, Alone, Halfway, Locked, SavePoints, Bracketed
<1>7. ASSUME NEW t \in Threads, Removes(t) PROVE Halfway'
  BY <1>7, <1>l, <1>b DEF Removes, Acts, LeavesRest, Alone, Halfway, Locked, SavePoints, Bracketed
<1>8. ASSUME NEW t \in Threads, Enters(t) PROVE Halfway'
  BY <1>8, <1>l, <1>b DEF Enters, Acts, LeavesRest, Alone, Halfway, Locked, SavePoints, Bracketed
<1>9. ASSUME NEW t \in Threads, Makes(t) PROVE Halfway'
  BY <1>9, <1>l, <1>b DEF Makes, Acts, LeavesRest, Alone, Halfway, Locked, SavePoints, Bracketed
<1>10. ASSUME NEW t \in Threads, Unwinds(t) PROVE Halfway'
  BY <1>10, <1>l, <1>b DEF Unwinds, Acts, LeavesRest, Alone, Halfway, Locked, SavePoints, Bracketed
<1>11. ASSUME NEW t \in Threads, Registers(t) PROVE Halfway'
  BY <1>11, <1>l, <1>b DEF Registers, Replaces, Alone, Halfway, Locked, SavePoints, Bracketed
<1>12. ASSUME NEW t \in Threads, Retracts(t) PROVE Halfway'
  BY <1>12, <1>l, <1>b DEF Retracts, Replaces, Alone, Halfway, Locked, SavePoints, Bracketed
<1>13. ASSUME NEW t \in Threads, NEW saved \in BOOLEAN, Ends(t, saved) PROVE Halfway'
  BY <1>13, <1>l, <1>b DEF Ends, Replaces, Alone, Halfway, Locked, SavePoints, Bracketed
<1>14. ASSUME NEW t \in Threads, NEW saved \in BOOLEAN, Flushes(t, saved) PROVE Halfway'
  BY <1>14, <1>l, <1>b DEF Flushes, Replaces, Alone, Halfway, Locked, SavePoints, Bracketed
<1>15. ASSUME NEW t \in Threads, Snaps(t) PROVE Halfway'
  BY <1>15, <1>l, <1>b DEF Snaps, Alone, Halfway, Locked, SavePoints, Bracketed
<1>16. ASSUME NEW t \in Threads, Commits(t) PROVE Halfway'
  BY <1>16, <1>l, <1>b DEF Commits, Calm, Alone, Halfway, Locked, SavePoints, Bracketed
<1>17. ASSUME NEW t \in Threads, NEW i \in Ids, Sheds(t, i) PROVE Halfway'
  BY <1>17, <1>l, <1>b DEF Sheds, Calm, Alone, Halfway, Locked, SavePoints, Bracketed
<1>18. ASSUME Down PROVE Halfway'
  BY <1>18, <1>l, <1>b DEF Down, podman, Halfway, Locked, SavePoints, Bracketed
<1>19. ASSUME Outside PROVE Halfway'
  BY <1>19, <1>l, <1>b DEF Outside, Halfway, Locked, SavePoints, Bracketed
<1> QED BY NextEffect, <1>1, <1>2, <1>3, <1>4, <1>5, <1>6, <1>7, <1>8, <1>9, <1>10, <1>11,
     <1>12, <1>13, <1>14, <1>15, <1>16, <1>17, <1>18, <1>19 DEF Effect, Work, Saves

(* No start slips into a shutdown outside the window "quit".               *)
LEMMA SuspendingKept ==
    ASSUME IInv, Shape, Boot, Story, windows = {}, windows' = {}, [Next]_vars
    PROVE  Suspending'
<1> USE DEF Story
<1>1. ASSUME NEW t \in Threads, Walks(t) PROVE Suspending'
  BY <1>1 DEF Walks, Alone, Running, RunningIds, Suspending, ShuttingDown
<1>2. ASSUME NEW t \in Threads, Starts(t) PROVE Suspending'
  BY <1>2 DEF Starts, Acts, LeavesRest, Alone, Suspending, ShuttingDown
<1>3. ASSUME NEW t \in Threads, Halts(t) PROVE Suspending'
  BY <1>3 DEF Halts, Acts, LeavesRest, Alone, Suspending, ShuttingDown
<1>4. ASSUME NEW t \in Threads, Pauses(t) PROVE Suspending'
  BY <1>4 DEF Pauses, Acts, LeavesRest, Alone, Suspending, ShuttingDown
<1>5. ASSUME NEW t \in Threads, Edits(t) PROVE Suspending'
  BY <1>5 DEF Edits, Acts, LeavesRest, Alone, Suspending, ShuttingDown
<1>6. ASSUME NEW t \in Threads, Unmakes(t) PROVE Suspending'
  BY <1>6 DEF Unmakes, Acts, LeavesRest, Alone, Up, Suspending, ShuttingDown
<1>7. ASSUME NEW t \in Threads, Removes(t) PROVE Suspending'
  BY <1>7 DEF Removes, Acts, LeavesRest, Alone, Suspending, ShuttingDown
<1>8. ASSUME NEW t \in Threads, Enters(t) PROVE Suspending'
  BY <1>8 DEF Enters, Acts, LeavesRest, Alone, Suspending, ShuttingDown
<1>9. ASSUME NEW t \in Threads, Makes(t) PROVE Suspending'
  BY <1>9 DEF Makes, Acts, LeavesRest, Alone, Suspending, ShuttingDown
<1>10. ASSUME NEW t \in Threads, Unwinds(t) PROVE Suspending'
  BY <1>10 DEF Unwinds, Acts, LeavesRest, Alone, Suspending, ShuttingDown
<1>11. ASSUME NEW t \in Threads, Registers(t) PROVE Suspending'
  BY <1>11 DEF Registers, Replaces, Alone, Suspending, ShuttingDown
<1>12. ASSUME NEW t \in Threads, Retracts(t) PROVE Suspending'
  BY <1>12 DEF Retracts, Replaces, Alone, Suspending, ShuttingDown
<1>13. ASSUME NEW t \in Threads, NEW saved \in BOOLEAN, Ends(t, saved) PROVE Suspending'
  BY <1>13 DEF Ends, Replaces, Alone, Suspending, ShuttingDown
<1>14. ASSUME NEW t \in Threads, NEW saved \in BOOLEAN, Flushes(t, saved) PROVE Suspending'
  BY <1>14 DEF Flushes, Replaces, Alone, Suspending, ShuttingDown
<1>15. ASSUME NEW t \in Threads, Snaps(t) PROVE Suspending'
  BY <1>15 DEF Snaps, Alone, Suspending, ShuttingDown
<1>16. ASSUME NEW t \in Threads, Commits(t) PROVE Suspending'
  BY <1>16 DEF Commits, Calm, Alone, Suspending, ShuttingDown
<1>17. ASSUME NEW t \in Threads, NEW i \in Ids, Sheds(t, i) PROVE Suspending'
  BY <1>17 DEF Sheds, Calm, Alone, Suspending, ShuttingDown
<1>18. ASSUME Down PROVE Suspending'
  BY <1>18 DEF Down, podman, Suspending, ShuttingDown
<1>19. ASSUME Outside PROVE Suspending'
  BY <1>19 DEF Outside, Suspending, ShuttingDown
<1> QED BY NextEffect, <1>1, <1>2, <1>3, <1>4, <1>5, <1>6, <1>7, <1>8, <1>9, <1>10, <1>11,
     <1>12, <1>13, <1>14, <1>15, <1>16, <1>17, <1>18, <1>19 DEF Effect, Work, Saves

(* A save that a later one has overtaken would open the window "reorder".  *)
LEMMA WrittenKept ==
    ASSUME IInv, Shape, Boot, Story, windows = {}, windows' = {}, [Next]_vars
    PROVE  Written'
<1>i. /\ instances \in [Ids -> Instance \cup {None}] /\ container \in [Ids -> Container \cup {None}]
      /\ file \in [Ids -> Instance \cup {None}]
      /\ asked \in [Ids -> SUBSET {"running", "stopped", "gone"}]
      /\ \A u \in Threads : /\ view[u] \in [Ids -> Instance \cup {None}]
                            /\ live[u] \in [Ids -> Container \cup {None}]
                            /\ (pc[u] \in {"entered", "recorded", "created"} =>
                                   instances[target[u]] # None)
      /\ saving \subseteq Threads
  BY DEF IInv, TypeOK, TypeWorld, TypeHistory, TypeLocal, InstanceMap, ContainerMap, EntriesPresent
<1>z. saving' \subseteq Threads
  BY NextKeeps DEF IInv, TypeOK, TypeLocal
<1>o. Outside => (Ready' <=> Ready)
  BY DEF Outside, Ready
<1>e. Down => ~Ready'
  BY DEF Down, Ready, podman
<1> USE DEF Story
<1>w. ASSUME NEW t \in Threads, Replaces(t, TRUE), instances' = instances, pc'[t] \notin Owing,
             "disk" \notin Faults
      PROVE  Written'
  <2> SUFFICES ASSUME Ready', \A u \in Threads : pc'[u] \in Owing => u \in saving'
               PROVE  \/ Same(file)' /\ \A u \in saving' : Same(view[u])'
                      \/ \E c \in saving' :
                            /\ Same(view[c])'
                            /\ \A u \in saving' : Same(view[u])' \/ u \in older'[c]
    BY DEF Written
  <2>1. \A u \in Threads : pc[u] \in Owing => u \in saving
    BY <1>w DEF Replaces, Alone
  <2>2. /\ \A u \in saving' : /\ u \in saving /\ u # t /\ view'[u] = view[u]
                              /\ older'[u] = older[u] \ {t}
        /\ file' = view[t] /\ older[t] = {} /\ t \in saving /\ Ready
        /\ \A u \in saving \ {t} : u \in saving'
    BY <1>w, <1>z, <1>i DEF Replaces, Alone
  <2>3. \A u \in saving' : Same(view[u])' <=> Same(view[u])
    BY <1>w, <2>2 DEF Same
  <2>4. Same(file)' <=> Same(view[t])
    BY <1>w, <2>2 DEF Same
  <2>5. CASE Same(file) /\ \A u \in saving : Same(view[u])
    BY <2>2, <2>3, <2>4, <2>5
  <2>6. ASSUME NEW c \in saving, Same(view[c]), \A u \in saving : Same(view[u]) \/ u \in older[c]
        PROVE  \/ Same(file)' /\ \A u \in saving' : Same(view[u])'
               \/ \E d \in saving' :
                     /\ Same(view[d])'
                     /\ \A u \in saving' : Same(view[u])' \/ u \in older'[d]
    <3>1. CASE c = t BY <2>2, <2>3, <2>4, <2>6, <3>1
    <3>2. CASE c # t BY <2>2, <2>3, <2>6, <3>2
    <3> QED BY <3>1, <3>2
  <2> QED BY <1>w, <2>1, <2>2, <2>5, <2>6 DEF Written
<1>1. ASSUME NEW t \in Threads, Walks(t) PROVE Written'
  <2>1. Ready' /\ (\A u \in Threads : pc'[u] \in Owing => u \in saving')
        => Ready /\ (\A u \in Threads : pc[u] \in Owing => u \in saving)
    BY <1>1 DEF Walks, Alone
  <2>2. /\ UNCHANGED <<file, instances, saving, older>>
        /\ \A u \in saving : view'[u] = view[u]
    BY <1>i, <1>1 DEF Walks, Alone
  <2> QED BY <2>1, <2>2 DEF Written, Same
<1>2. ASSUME NEW t \in Threads, Starts(t) PROVE Written'
  BY <1>2 DEF Starts, Acts, LeavesRest, Alone, Written, Same, Owing, Locked, SavePoints, Bracketed
<1>3. ASSUME NEW t \in Threads, Halts(t) PROVE Written'
  BY <1>3 DEF Halts, Acts, LeavesRest, Alone, Written, Same, Owing, Locked, SavePoints, Bracketed
<1>4. ASSUME NEW t \in Threads, Pauses(t) PROVE Written'
  BY <1>4 DEF Pauses, Acts, LeavesRest, Alone, Written, Same, Owing, Locked, SavePoints, Bracketed
<1>5. ASSUME NEW t \in Threads, Edits(t) PROVE Written'
  BY <1>5 DEF Edits, Acts, LeavesRest, Alone, Written, Same, Owing, Locked, SavePoints, Bracketed
<1>6. ASSUME NEW t \in Threads, Unmakes(t) PROVE Written'
  BY <1>6 DEF Unmakes, Acts, LeavesRest, Alone, Written, Same, Owing, Locked, SavePoints, Bracketed
<1>7. ASSUME NEW t \in Threads, Removes(t) PROVE Written'
  BY <1>7 DEF Removes, Acts, LeavesRest, Alone, Written, Same, Owing, Locked, SavePoints, Bracketed
<1>8. ASSUME NEW t \in Threads, Enters(t) PROVE Written'
  BY <1>8 DEF Enters, Acts, LeavesRest, Alone, Written, Same, Owing, Locked, SavePoints, Bracketed
<1>9. ASSUME NEW t \in Threads, Makes(t) PROVE Written'
  BY <1>9 DEF Makes, Acts, LeavesRest, Alone, Written, Same, Owing, Locked, SavePoints, Bracketed
<1>10. ASSUME NEW t \in Threads, Unwinds(t) PROVE Written'
  BY <1>10 DEF Unwinds, Acts, LeavesRest, Alone, Written, Same, Owing, Locked, SavePoints, Bracketed
<1>11. ASSUME NEW t \in Threads, Registers(t) PROVE Written'
  <2>1. CASE "disk" \in Faults BY <2>1 DEF Written
  <2>2. CASE "disk" \notin Faults
    <3>1. Replaces(t, TRUE) /\ instances' = instances BY <2>2, <1>11 DEF Registers, Replaces
    <3>2. pc'[t] \notin Owing BY <1>11 DEF Registers, Owing
    <3> QED BY <1>w, <2>2, <3>1, <3>2
  <2> QED BY <2>1, <2>2
<1>12. ASSUME NEW t \in Threads, Retracts(t) PROVE Written'
  BY <1>12 DEF Retracts, Replaces, Alone, Written, Same, Owing, Locked, SavePoints, Bracketed
<1>13. ASSUME NEW t \in Threads, NEW saved \in BOOLEAN, Ends(t, saved) PROVE Written'
  <2>1. CASE "disk" \in Faults BY <2>1 DEF Written
  <2>2. CASE "disk" \notin Faults
    <3>1. Replaces(t, TRUE) /\ instances' = instances BY <2>2, <1>13 DEF Ends, Replaces
    <3>2. pc'[t] \notin Owing BY <1>13 DEF Ends, Owing
    <3> QED BY <1>w, <2>2, <3>1, <3>2
  <2> QED BY <2>1, <2>2
<1>14. ASSUME NEW t \in Threads, NEW saved \in BOOLEAN, Flushes(t, saved) PROVE Written'
  <2>1. CASE "disk" \in Faults BY <2>1 DEF Written
  <2>2. CASE "disk" \notin Faults
    <3>1. Replaces(t, TRUE) /\ instances' = instances BY <2>2, <1>14 DEF Flushes, Replaces
    <3>2. pc'[t] \notin Owing BY <1>14 DEF Flushes, Owing
    <3> QED BY <1>w, <2>2, <3>1, <3>2
  <2> QED BY <2>1, <2>2
<1>15. ASSUME NEW t \in Threads, Snaps(t) PROVE Written'
  BY <1>15 DEF Snaps, Alone, Written, Same, Owing, Locked, SavePoints, Bracketed
<1>16. ASSUME NEW t \in Threads, Commits(t) PROVE Written'
  <2>1. pc'[t] = "drifted" => Written'
    BY <1>16 DEF Commits, Written, Owing, Calm
  <2>2. CASE pc'[t] # "drifted"
    <3>1. view[t] = file /\ saving' = {} /\ file' = file
      BY <1>16 DEF Commits, Calm, Reads
    <3>2. ASSUME NEW j \in Ids PROVE Lasting(file[j]) = Lasting(instances'[j])
      <4>1. /\ instances'[j] = Reconciled(file[j], live[t][j]) /\ ~Drifted(file[j], live[t][j])
            /\ file[j] \in Instance \cup {None} /\ live[t][j] \in Container \cup {None}
        BY <1>i, <2>2, <3>1, <1>16 DEF Commits
      <4>2. (file[j] = None) <=> (live[t][j] = None) BY <4>1 DEF Drifted
      <4> QED BY <4>1, <4>2, Reconciles
    <3> QED BY <3>1, <3>2 DEF Written, Same
  <2> QED BY <2>1, <2>2
<1>17. ASSUME NEW t \in Threads, NEW i \in Ids, Sheds(t, i) PROVE Written'
  BY <1>17 DEF Sheds, Calm, Alone, Written, Same, Owing, Locked, SavePoints, Bracketed
<1>18. ASSUME Down PROVE Written'
  BY <1>18, <1>e DEF Down, podman, Written, Same, Owing, Locked, SavePoints, Bracketed
<1>19. ASSUME Outside PROVE Written'
  BY <1>19, <1>o DEF Outside, Written, Same, Owing, Locked, SavePoints, Bracketed
<1> QED BY NextEffect, <1>1, <1>2, <1>3, <1>4, <1>5, <1>6, <1>7, <1>8, <1>9, <1>10, <1>11,
     <1>12, <1>13, <1>14, <1>15, <1>16, <1>17, <1>18, <1>19 DEF Effect, Work, Saves

-----------------------------------------------------------------------------
(* The theorems                                                            *)

(* The invariant holds initially and is kept by every step.                *)
LEMMA IntentInit == Init => IntentInv
<1> SUFFICES ASSUME Init PROVE IntentInv
  OBVIOUS
<1> USE DEF Init, NoMap
<1>1. Shape /\ Boot /\ Removing /\ DataUnderContainer
  BY DEF Shape, ShapeOf, Boot, Removing, DataUnderContainer
<1>2. ~Ready /\ Copies = {NoMap}
  BY DEF Ready, Copies
<1>3. Reads /\ Creates /\ Agreed /\ Known /\ Done /\ Halfway /\ Suspending
  BY DEF Reads, Eligible, Reconciling, Creates, Agreed, Known, Done, Halfway, Suspending
<1>4. Named /\ Stopped /\ Running
  BY DEF Named, Stopped, Running, Up
<1>5. Kept
  BY <1>2 DEF Kept, Good, Recorded, Creating
<1>6. Written
  BY <1>2 DEF Written
<1> QED BY <1>1, <1>3, <1>4, <1>5, <1>6 DEF IntentInv, Story

LEMMA IntentNext == IInv /\ IntentInv /\ [Next]_vars => IntentInv'
<1> SUFFICES ASSUME IInv, IntentInv, [Next]_vars PROVE IntentInv'
  OBVIOUS
<1>1. Shape /\ Boot /\ Removing /\ DataUnderContainer
  BY DEF IntentInv
<1>2. Shape' /\ Boot' /\ Removing' /\ DataUnderContainer'
  BY <1>1, ShapeKept, BootKept, DataKept
<1>3. ASSUME windows' = {} PROVE Story'
  <2>1. windows = {} /\ Story
    BY <1>3, WindowsStay DEF IntentInv
  <2>2. Reads' /\ Creates' /\ Agreed' /\ Known'
    BY <1>1, <1>3, <2>1, ReadsKept, CreatesKept, AgreedKept, KnownKept
  <2>3. Named' /\ Kept' /\ Done' /\ Stopped'
    BY <1>1, <1>3, <2>1, NamedKept, KeptKept, DoneKept, StoppedKept
  <2>4. Running' /\ Halfway' /\ Suspending' /\ Written'
    BY <1>1, <1>3, <2>1, RunningKept, HalfwayKept, SuspendingKept, WrittenKept
  <2> QED BY <2>2, <2>3, <2>4 DEF Story
<1> QED BY <1>2, <1>3 DEF IntentInv

(* The inductive invariant behind the theorems below holds in every        *)
(* behaviour: no step of the manager, of Podman or of the user undoes it,  *)
(* as long as the behaviour has gone through none of the windows.          *)
THEOREM IntentInvariance == Spec => [](IInv /\ IntentInv)
<1>1. Init => IInv /\ IntentInv
  BY InitHolds, IntentInit
<1>2. IInv /\ IntentInv /\ [Next]_vars => IInv' /\ IntentInv'
  BY NextKeeps, IntentNext
<1> QED BY <1>1, <1>2, PTL DEF Spec

(* What instances.toml and the map in memory record of an instance is what *)
(* was last asked for it, or what is being asked for it now, however       *)
(* requests, passes, saves, failures and crashes interleave.               *)
THEOREM IntentIsKept == Spec => []IntentKept
<1>1. IInv /\ IntentInv => IntentKept
  BY DEF IntentInv, Story, Kept, Good, Copies, Ready, IntentKept
<1> QED BY <1>1, IntentInvariance, PTL

(* An instance the user stopped does not run again: supervision, the       *)
(* restore of a boot and the restore of a client all leave it alone.       *)
THEOREM StoppedStaysStopped == Spec => []StopIsKept
<1>1. IInv /\ IntentInv => StopIsKept
  <2> SUFFICES ASSUME IInv, IntentInv, windows = {},
                      NEW i \in Ids, asked[i] = {"stopped"}, container[i] # None
               PROVE  container[i].state = "stopped"
    BY DEF StopIsKept
  <2>1. container[i].state # "running"
    BY DEF IntentInv, Story, Stopped, Up
  <2>2. container[i] \in Container
    BY DEF IInv, TypeOK, TypeWorld, ContainerMap
  <2> QED BY <2>1, <2>2 DEF Container
<1> QED BY <1>1, IntentInvariance, PTL

(* The data directory of an instance is there as long as its container is: *)
(* a removal deletes it only after the container, under the same lock.     *)
THEOREM DataOutlivesContainer == Spec => []DataUnderContainer
<1>1. IInv /\ IntentInv => DataUnderContainer
  BY DEF IntentInv
<1> QED BY <1>1, IntentInvariance, PTL

(* Every container has its entry in instances.toml, and in memory while    *)
(* the daemon serves: neither a creation nor a removal that fails or dies  *)
(* half way leaves one behind.                                             *)
THEOREM NoContainerOrphaned == Spec => []NoOrphan
<1>1. IInv /\ IntentInv => NoOrphan
  BY DEF IntentInv, Story, Named, Copies, Ready, NoOrphan
<1> QED BY <1>1, IntentInvariance, PTL

(* A shutdown has stopped everything when it replies. A call to Podman     *)
(* that fails is logged and skipped, hence the assumption on Faults.       *)
THEOREM ShutdownStopsAll ==
    ASSUME "podman" \notin Faults
    PROVE  Spec => []QuitStopsAll
<1>1. IInv /\ IntentInv => QuitStopsAll
  <2> SUFFICES ASSUME IInv, IntentInv, windows = {}, NEW t \in Threads, pc[t] = "quit",
                      NEW i \in Ids, container[i] # None
               PROVE  container[i].state = "stopped"
    BY DEF QuitStopsAll
  <2>1. container[i].state # "running"
    BY DEF IntentInv, Story, Suspending, Up
  <2>2. container[i] \in Container
    BY DEF IInv, TypeOK, TypeWorld, ContainerMap
  <2> QED BY <2>1, <2>2 DEF Container
<1> QED BY <1>1, IntentInvariance, PTL

(* When no change is under way and none waits to be saved, instances.toml  *)
(* says of every instance what memory says. A save that fails is reported  *)
(* to its caller and not repeated, hence the assumption on Faults.         *)
THEOREM FileFollowsMemory ==
    ASSUME "disk" \notin Faults
    PROVE  Spec => []WriteThrough
<1>1. IInv /\ IntentInv => WriteThrough
  <2> SUFFICES ASSUME IInv, IntentInv, phase = "up", windows = {},
                      \A t \in Threads : pc[t] \notin Bracketed \cup SavePoints
               PROVE  \A i \in Ids : Lasting(file[i]) = Lasting(instances[i])
    BY DEF WriteThrough
  <2>1. \A t \in Threads : pc[t] \notin Owing
    BY DEF Owing, Bracketed, SavePoints, Locked
  <2>2. saving = {}
    BY DEF IntentInv, Shape, ShapeOf, IInv, TypeOK, TypeLocal
  <2>3. Same(file)
    BY <2>1, <2>2 DEF IntentInv, Story, Written, Ready
  <2> QED BY <2>3 DEF Same
<1> QED BY <1>1, IntentInvariance, PTL

=============================================================================

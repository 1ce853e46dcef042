---------------------------- MODULE ManagerProofs ----------------------------
(***************************************************************************)
(* Proofs about Manager for every set of ids, clients, requests, policies, *)
(* faults and events: the types are kept, the bracket is balanced, and no  *)
(* other thread touches an entry while a request is inside its bracket.    *)
(*                                                                         *)
(* IInv is inductive.  Its control part (phase, mutexes, bracket, program  *)
(* counters) is kept by one lemma about the shape nearly every step has,   *)
(* ControlStep; the lemma of an action then looks at the data it changes.  *)
(***************************************************************************)
EXTENDS Manager, FiniteSetTheorems, TLAPS

-----------------------------------------------------------------------------
(* Counting the threads inside the bracket                                 *)

Inside(f) == {u \in Threads : f[u] \in Bracketed}

LEMMA InsideFinite ==
    ASSUME NEW f
    PROVE  IsFiniteSet(Inside(f)) /\ Cardinality(Inside(f)) \in Nat
<1>1. IsFiniteSet(Clients \cup {Supervisor})
  BY ManagerAssumption, FS_AddElement
<1>2. Inside(f) \in SUBSET Threads
  BY DEF Inside
<1>. QED
  BY <1>1, <1>2, FS_Subset, FS_CardinalityType DEF Threads

LEMMA InsideSame ==
    ASSUME NEW f \in [Threads -> Location], NEW t \in Threads, NEW l \in Location,
           f[t] \in Bracketed <=> l \in Bracketed
    PROVE  Inside([f EXCEPT ![t] = l]) = Inside(f)
BY DEF Inside

LEMMA InsideEnter ==
    ASSUME NEW f \in [Threads -> Location], NEW t \in Threads, NEW l \in Location,
           f[t] \notin Bracketed, l \in Bracketed
    PROVE  Cardinality(Inside([f EXCEPT ![t] = l])) = Cardinality(Inside(f)) + 1
<1>1. Inside([f EXCEPT ![t] = l]) = Inside(f) \cup {t}
  BY DEF Inside
<1>2. t \notin Inside(f)
  BY DEF Inside
<1>. QED
  BY <1>1, <1>2, InsideFinite, FS_AddElement

LEMMA InsideLeave ==
    ASSUME NEW f \in [Threads -> Location], NEW t \in Threads, NEW l \in Location,
           f[t] \in Bracketed, l \notin Bracketed
    PROVE  Cardinality(Inside([f EXCEPT ![t] = l])) = Cardinality(Inside(f)) - 1
<1>1. Inside([f EXCEPT ![t] = l]) = Inside(f) \ {t}
  BY DEF Inside
<1>2. t \in Inside(f)
  BY DEF Inside
<1>. QED
  BY <1>1, <1>2, InsideFinite, FS_RemoveElement

(* A thread inside the bracket is counted, so no pass commits meanwhile.   *)
LEMMA InsideCounts ==
    ASSUME InflightExact, NEW t \in Threads, pc[t] \in Bracketed
    PROVE  inflight > 0
<1>1. t \in Inside(pc)
  BY DEF Inside
<1>2. inflight = Cardinality(Inside(pc))
  BY DEF InflightExact, Inside
<1>. QED
  BY <1>1, <1>2, InsideFinite, FS_EmptySet

Count(l) == IF l \in Bracketed THEN 1 ELSE 0

LEMMA BracketCount ==
    ASSUME TypeControl, InflightExact, NEW t \in Threads, NEW l \in Location,
           Goto(t, l), inflight' = inflight + Count(l) - Count(pc[t])
    PROVE  InflightExact' /\ inflight' \in Nat
<1>1. /\ inflight = Cardinality(Inside(pc))
      /\ InflightExact' <=> inflight' = Cardinality(Inside(pc'))
  BY DEF InflightExact, Inside
<1>2. pc \in [Threads -> Location] /\ pc' = [pc EXCEPT ![t] = l]
  BY DEF TypeControl, Goto
<1>3. Cardinality(Inside(pc)) \in Nat /\ Cardinality(Inside(pc')) \in Nat
  BY InsideFinite
<1>4. CASE pc[t] \in Bracketed <=> l \in Bracketed
  <2>1. Inside(pc') = Inside(pc)
    BY <1>2, <1>4, InsideSame
  <2>. QED
    BY <2>1, <1>1, <1>3, <1>4 DEF Count
<1>5. CASE pc[t] \notin Bracketed /\ l \in Bracketed
  <2>1. Cardinality(Inside(pc')) = Cardinality(Inside(pc)) + 1
    BY <1>2, <1>5, InsideEnter
  <2>. QED
    BY <2>1, <1>1, <1>3, <1>5 DEF Count
<1>6. CASE pc[t] \in Bracketed /\ l \notin Bracketed
  <2>1. Cardinality(Inside(pc')) = Cardinality(Inside(pc)) - 1
    BY <1>2, <1>6, InsideLeave
  <2>. QED
    BY <2>1, <1>1, <1>3, <1>6 DEF Count
<1>. QED
  BY <1>4, <1>5, <1>6

-----------------------------------------------------------------------------
(* Steps by what they do to the control state                              *)

ControlInv == TypeControl /\ InflightExact /\ LocksHeld /\ DownIdle

(* A thread moves on and keeps, or loses, nothing but its place.           *)
ControlStep(t, l) ==
    /\ Goto(t, l) /\ l # "wait"
    /\ l \in Locked => pc[t] \in Locked
    /\ inflight' = inflight + Count(l) - Count(pc[t])
    /\ \/ phase' = phase /\ pc[t] # "idle"
       \/ phase' \in {"boot", "up"}
    /\ lock' = lock /\ target' = target

LEMMA ControlStepKeeps ==
    ASSUME ControlInv, NEW t \in Threads, NEW l \in Location, ControlStep(t, l)
    PROVE  ControlInv'
<1>1. InflightExact' /\ inflight' \in Nat
  BY BracketCount DEF ControlInv, ControlStep
<1>2. TypeControl'
  BY <1>1 DEF ControlInv, ControlStep, TypeControl, Goto
<1>3. LocksHeld'
  BY DEF ControlInv, ControlStep, TypeControl, Goto, LocksHeld
<1>4. DownIdle'
  BY DEF ControlInv, ControlStep, TypeControl, Goto, DownIdle
<1>. QED
  BY <1>1, <1>2, <1>3, <1>4 DEF ControlInv

ControlStill == UNCHANGED <<phase, lock, inflight, pc, target>>

LEMMA ControlStillKeeps ==
    ASSUME ControlInv, ControlStill
    PROVE  ControlInv'
BY DEF ControlInv, ControlStill, TypeControl, InflightExact, LocksHeld, DownIdle

(* The end of a request, with its mutex held or, if it was refused, free.  *)
LEMMA FinishKeepsControl ==
    ASSUME ControlInv, NEW t \in Threads, Finish(t), phase' = phase,
           pc[t] \in Locked \/ (pc[t] = "wait" /\ lock[target[t]] = None)
    PROVE  ControlInv'
<1>1. PICK l \in {"idle", "restoring"} : Goto(t, l)
  BY DEF Finish
<1>2. l \in Location /\ l \notin Locked \cup Bracketed /\ l # "wait"
  BY <1>1 DEF Location, Locked, Bracketed
<1>3. inflight' = inflight + Count(l) - Count(pc[t])
  BY <1>2 DEF Finish, Unbracket, Count, ControlInv, TypeControl
<1>4. InflightExact' /\ inflight' \in Nat
  BY <1>1, <1>2, <1>3, BracketCount DEF ControlInv
<1>5. TypeControl'
  BY <1>1, <1>2, <1>4 DEF ControlInv, TypeControl, Goto, Finish, Unlock
<1>6. LocksHeld'
  BY <1>1, <1>2, ManagerAssumption
     DEF ControlInv, TypeControl, Goto, Finish, Unlock, LocksHeld
<1>7. DownIdle'
  <2>1. pc[t] # "idle"
    BY DEF Locked
  <2>. QED
    BY <2>1 DEF ControlInv, DownIdle
<1>. QED
  BY <1>4, <1>5, <1>6, <1>7 DEF ControlInv

-----------------------------------------------------------------------------
(* What the steps do to the data                                           *)

AskedType == [Ids -> SUBSET {"running", "stopped", "gone"}]

(* No entry disappears from the map.                                       *)
NoneLost == \A i \in Ids : instances[i] # None => instances'[i] # None

(* A request works on an id of its own, and on a record if it has one.     *)
LEMMA Owned ==
    ASSUME IInv, NEW t \in Threads, pc[t] \in Locked
    PROVE  /\ target[t] \in Ids
           /\ pc[t] \in {"begun", "halfway"} /\ t \in attached
                => instances[target[t]] \in Instance
           /\ pc[t] \in {"entered", "recorded", "created"}
                => instances[target[t]] \in Instance
           /\ instances \in InstanceMap /\ container \in ContainerMap
BY DEF IInv, TypeOK, TypeWorld, LocksHeld, EntriesPresent, InstanceMap

LEMMA ContainerUpdated ==
    ASSUME container \in ContainerMap, NEW i \in Ids, container[i] # None,
           StartContainer(i) \/ StopContainer(i)
    PROVE  container' \in ContainerMap
<1>1. container[i] \in Container
  BY DEF ContainerMap
<1>2. PICK c \in Container : container' = [container EXCEPT ![i] = c]
  <2>1. CASE StartContainer(i)
    BY <1>1, <2>1 DEF StartContainer, Container, ExitCode
  <2>2. CASE StopContainer(i)
    BY <1>1, <2>2 DEF StopContainer, Container, ExitCode
  <2>. QED
    BY <2>1, <2>2
<1>. QED
  BY <1>2 DEF ContainerMap

LEMMA MutateKeeps ==
    ASSUME instances \in InstanceMap, NEW t \in Threads, NEW i,
           target[t] \in Ids, t \in attached => i \in Instance, Mutate(t, i)
    PROVE  instances' \in InstanceMap /\ NoneLost
BY NoneAssumption DEF InstanceMap, Mutate, NoneLost

LEMMA AttemptTyped ==
    ASSUME TypeHistory, NEW t \in Threads, Attempt(t)
    PROVE  asked' \in AskedType
<1>1. op[t] \in Intentional => Intent(op[t]) \in {"running", "stopped", "gone"}
  BY ManagerAssumption DEF Intentional, Intent, Transitions, Creations, Passes
<1>. QED
  BY <1>1 DEF TypeHistory, Attempt, AskedType

LEMMA WindowsTyped ==
    ASSUME NEW t \in Threads
    PROVE  DetachedWrite(t) \cup StaleRestore(t) \cup LateStart \subseteq Window
BY DEF DetachedWrite, StaleRestore, LateStart, Window

(* Entries that a moving thread needs are those it needed before.          *)
LEMMA EntriesKept ==
    ASSUME IInv, NEW t \in Threads, NEW l \in Location, Goto(t, l), NoneLost,
           target' = target, attached' = attached,
           \/ l \notin {"locked", "begun", "halfway", "entered", "recorded", "created"}
           \/ pc[t] \in {"entered", "recorded", "created"}
           \/ pc[t] \in {"locked", "begun"} /\ l \in {"begun", "halfway"}
    PROVE  EntriesPresent'
BY DEF IInv, TypeOK, TypeControl, EntriesPresent, Goto, NoneLost, LocksHeld, Locked

(* Without an entry for its own id a thread does not disturb the others.   *)
LEMMA EntryDeleted ==
    ASSUME IInv, NEW t \in Threads, NEW l \in Location, Goto(t, l),
           pc[t] \in Locked, Delete(target[t]),
           target' = target, attached' = attached,
           l \notin {"locked", "begun", "halfway", "entered", "recorded", "created"}
    PROVE  EntriesPresent' /\ instances' \in InstanceMap
<1>1. \A u \in Threads : u # t /\ pc[u] \in Locked => target[u] # target[t]
  BY DEF IInv, LocksHeld
<1>2. EntriesPresent'
  BY <1>1 DEF IInv, TypeOK, TypeControl, TypeWorld, InstanceMap, EntriesPresent,
              Goto, Delete, LocksHeld, Locked
<1>. QED
  BY <1>2, Owned DEF Delete, InstanceMap

LEMMA WriteTyped ==
    ASSUME IInv, NEW t \in Threads, NEW saved \in BOOLEAN, Write(t, saved)
    PROVE  /\ file' \in InstanceMap /\ view' \in [Threads -> InstanceMap]
           /\ saving' \subseteq Threads /\ windows' \subseteq Window
           /\ older' \in [Threads -> SUBSET Threads]
           /\ UNCHANGED <<container, data, phase, live, behind>>
BY DEF IInv, TypeOK, TypeWorld, TypeLocal, TypeHistory, Write, Through, Window,
       InstanceMap, NoMap, podman, passes

-----------------------------------------------------------------------------
(* Requests                                                                *)

LEMMA FinishKeeps ==
    ASSUME IInv, NEW t \in Threads, Finish(t), phase' = phase,
           instances' = instances,
           pc[t] \in Locked \/ (pc[t] = "wait" /\ lock[target[t]] = None)
    PROVE  /\ ControlInv' /\ EntriesPresent'
           /\ op' \in [Threads -> Ops \cup {"supervise", None}]
           /\ failed' \subseteq Threads /\ attached' \subseteq Threads
           /\ todo' = todo
<1>1. ControlInv'
  BY FinishKeepsControl DEF IInv, TypeOK, ControlInv
<1>2. EntriesPresent'
  BY DEF IInv, TypeOK, TypeControl, EntriesPresent, Finish, Goto
<1>3. op' \in [Threads -> Ops \cup {"supervise", None}]
  BY DEF IInv, TypeOK, TypeLocal, Finish
<1>. QED
  BY <1>1, <1>2, <1>3 DEF IInv, TypeOK, TypeLocal, Finish

LEMMA AbortKeeps ==
    ASSUME IInv, NEW t \in Threads, Abort(t),
           pc[t] \in Locked \/ (pc[t] = "wait" /\ lock[target[t]] = None)
    PROVE  IInv'
<1>1. /\ ControlInv' /\ EntriesPresent'
      /\ op' \in [Threads -> Ops \cup {"supervise", None}]
      /\ failed' \subseteq Threads /\ attached' \subseteq Threads
      /\ todo' = todo
  BY FinishKeeps DEF Abort
<1>2. TypeWorld'
  BY DEF IInv, TypeOK, TypeWorld, Abort, podman, saves, passes
<1>3. TypeLocal'
  BY <1>1 DEF IInv, TypeOK, TypeLocal, Abort, saves
<1>4. TypeHistory'
  BY DEF IInv, TypeOK, TypeHistory, Abort, history
<1>. QED
  BY <1>1, <1>2, <1>3, <1>4 DEF IInv, TypeOK, ControlInv

LEMMA SaveAndFinishKeeps ==
    ASSUME IInv, NEW t \in Threads, NEW saved \in BOOLEAN, SaveAndFinish(t, saved)
    PROVE  IInv'
<1>1. /\ file' \in InstanceMap /\ view' \in [Threads -> InstanceMap]
      /\ saving' \subseteq Threads /\ windows' \subseteq Window
      /\ older' \in [Threads -> SUBSET Threads]
      /\ UNCHANGED <<container, data, phase, live, behind>>
  BY WriteTyped DEF SaveAndFinish
<1>2. /\ ControlInv' /\ EntriesPresent'
      /\ op' \in [Threads -> Ops \cup {"supervise", None}]
      /\ failed' \subseteq Threads /\ attached' \subseteq Threads
      /\ todo' = todo
  BY <1>1, FinishKeeps DEF SaveAndFinish, Locked
<1>3. TypeWorld'
  BY <1>1 DEF IInv, TypeOK, TypeWorld, SaveAndFinish
<1>4. TypeLocal'
  BY <1>1, <1>2 DEF IInv, TypeOK, TypeLocal, SaveAndFinish
<1>5. asked' \in AskedType
  <2>1. op[t] \in Intentional => Intent(op[t]) \in {"running", "stopped", "gone"}
    BY ManagerAssumption DEF Intentional, Intent, Transitions, Creations, Passes
  <2>. QED
    BY <2>1 DEF IInv, TypeOK, TypeHistory, SaveAndFinish, Settle, AskedType
<1>6. TypeHistory'
  BY <1>1, <1>5 DEF IInv, TypeOK, TypeHistory, SaveAndFinish, AskedType
<1>. QED
  BY <1>2, <1>3, <1>4, <1>6 DEF IInv, TypeOK, ControlInv

LEMMA RequestKeeps ==
    ASSUME IInv, NEW t \in Threads, NEW o \in Ops, NEW i \in Ids, Request(t, o, i)
    PROVE  IInv'
<1>1. TypeWorld' /\ TypeHistory'
  BY DEF IInv, TypeOK, TypeWorld, TypeHistory, Request, podman, saves, passes, history
<1>2. TypeLocal'
  BY DEF IInv, TypeOK, TypeLocal, Request, saves
<1>3. ControlInv' /\ EntriesPresent'
  <2>1. CASE o \in Passes
    <3>1. PICK l \in {"restore", "load"} : Goto(t, l)
      BY <2>1 DEF Request
    <3>2. ControlStep(t, l) /\ l \in Location
      BY <2>1, <3>1 DEF Request, ControlStep, Count, Bracketed, Locked, Location,
                        IInv, TypeOK, TypeControl
    <3>3. ControlInv'
      BY <3>2, ControlStepKeeps DEF IInv, TypeOK, ControlInv
    <3>4. EntriesPresent'
      BY <2>1, <3>1, <3>2, EntriesKept DEF Request, NoneLost
    <3>. QED
      BY <3>3, <3>4
  <2>2. CASE o \notin Passes
    <3>1. Goto(t, "wait") /\ "wait" \in Location /\ "wait" \notin Bracketed
      BY <2>2 DEF Request, Location, Bracketed, Locked
    <3>2. InflightExact' /\ inflight' \in Nat
      BY <3>1, BracketCount
         DEF Request, Count, Bracketed, Locked, IInv, TypeOK, TypeControl
    <3>3. TypeControl'
      BY <2>2, <3>1, <3>2 DEF IInv, TypeOK, TypeControl, Request, Goto
    <3>4. LocksHeld' /\ DownIdle' /\ EntriesPresent'
      BY <2>2, <3>1 DEF IInv, TypeOK, TypeControl, Request, Goto, LocksHeld,
                        DownIdle, EntriesPresent, Locked
    <3>. QED
      BY <3>2, <3>3, <3>4 DEF ControlInv
  <2>. QED
    BY <2>1, <2>2
<1>. QED
  BY <1>1, <1>2, <1>3 DEF IInv, TypeOK, ControlInv

LEMMA AcquireKeeps ==
    ASSUME IInv, NEW t \in Threads, Acquire(t)
    PROVE  IInv'
<1>1. PICK l \in {"locked", "pulling"} :
         Goto(t, l) /\ (l = "locked" => instances[target[t]] # None)
  BY DEF Acquire
<1>2. l \in Location /\ l \notin Bracketed /\ "wait" \notin Bracketed
  BY <1>1 DEF Location, Bracketed, Locked
<1>3. TypeWorld' /\ TypeHistory'
  BY DEF IInv, TypeOK, TypeWorld, TypeHistory, Acquire, podman, saves, passes, history
<1>4. TypeLocal'
  BY DEF IInv, TypeOK, TypeLocal, Acquire, saves
<1>5. InflightExact' /\ inflight' \in Nat
  BY <1>1, <1>2, BracketCount DEF Acquire, Count, IInv, TypeOK, TypeControl
<1>6. TypeControl'
  BY <1>1, <1>2, <1>5 DEF IInv, TypeOK, TypeControl, Acquire, Goto
<1>7. LocksHeld' /\ DownIdle'
  BY <1>1, ManagerAssumption
     DEF IInv, TypeOK, TypeControl, Acquire, Goto, LocksHeld, DownIdle
<1>8. EntriesPresent'
  BY <1>1 DEF IInv, TypeOK, TypeControl, Acquire, Goto, EntriesPresent
<1>. QED
  BY <1>3, <1>4, <1>5, <1>6, <1>7, <1>8 DEF IInv, TypeOK

LEMMA BeginKeeps ==
    ASSUME IInv, NEW t \in Threads, Begin(t)
    PROVE  IInv'
<1>1. ControlStep(t, "begun") /\ "begun" \in Location
  BY DEF Begin, Bracket, ControlStep, Count, Bracketed, Locked, Location, locals,
         IInv, TypeOK, TypeControl
<1>2. ControlInv'
  BY <1>1, ControlStepKeeps DEF IInv, TypeOK, ControlInv
<1>3. EntriesPresent'
  BY <1>1, EntriesKept DEF Begin, locals, NoneLost
<1>4. TypeWorld' /\ TypeHistory'
  BY DEF IInv, TypeOK, TypeWorld, TypeHistory, Begin, podman, saves, passes, history
<1>5. TypeLocal'
  BY DEF IInv, TypeOK, TypeLocal, Begin, Bracket, Bump, saves, locals
<1>. QED
  BY <1>2, <1>3, <1>4, <1>5 DEF IInv, TypeOK, ControlInv

-----------------------------------------------------------------------------
(* Transitions                                                             *)

LEMMA TransitKeeps ==
    ASSUME IInv, NEW t \in Threads, pc[t] \in {"begun", "halfway"},
           NEW i, t \in attached => i \in Instance,
           NEW hits \in SUBSET Window, Transit(t, i, hits),
           container' \in ContainerMap, failed' \subseteq Threads,
           asked' \in AskedType, resume' \subseteq Ids
    PROVE  IInv'
<1>1. target[t] \in Ids /\ instances \in InstanceMap
  BY Owned DEF Locked
<1>2. instances' \in InstanceMap /\ NoneLost
  BY <1>1, MutateKeeps DEF Transit
<1>3. TypeWorld'
  BY <1>2 DEF IInv, TypeOK, TypeWorld, Transit, saves, passes
<1>4. TypeLocal'
  BY DEF IInv, TypeOK, TypeLocal, Transit, saves
<1>5. TypeHistory'
  <2>1. windows' \subseteq Window
    BY DEF IInv, TypeOK, TypeHistory, Transit, Through, DetachedWrite, Window
  <2>. QED
    BY <2>1 DEF IInv, TypeOK, TypeHistory, AskedType, Transit
<1>6. ControlStep(t, "dirty") /\ "dirty" \in Location
  BY DEF Transit, ControlStep, Count, Bracketed, Locked, Location,
         IInv, TypeOK, TypeControl
<1>7. ControlInv'
  BY <1>6, ControlStepKeeps DEF IInv, TypeOK, ControlInv
<1>8. EntriesPresent'
  BY <1>2, <1>6, EntriesKept DEF Transit
<1>. QED
  BY <1>3, <1>4, <1>5, <1>7, <1>8 DEF IInv, TypeOK, ControlInv

LEMMA FoundMissingKeeps ==
    ASSUME IInv, NEW t \in Threads, pc[t] \in {"begun", "halfway"}, FoundMissing(t)
    PROVE  IInv'
<1>1. t \in attached => [instances[target[t]] EXCEPT !.status = "missing"] \in Instance
  BY Owned DEF Locked, Instance, Status
<1>2. container' \in ContainerMap /\ failed' \subseteq Threads
      /\ asked' \in AskedType /\ resume' \subseteq Ids
  BY DEF IInv, TypeOK, TypeWorld, TypeLocal, TypeHistory, AskedType,
         FoundMissing, Fail, Discharge
<1>3. {} \in SUBSET Window /\ Transit(t, [instances[target[t]] EXCEPT !.status = "missing"], {})
  BY DEF FoundMissing
<1>. QED
  BY <1>1, <1>2, <1>3, TransitKeeps

LEMMA PodmanFailsKeeps ==
    ASSUME IInv, NEW t \in Threads, pc[t] = "begun", PodmanFails(t)
    PROVE  IInv'
<1>1. TypeWorld' /\ TypeHistory'
  BY DEF IInv, TypeOK, TypeWorld, TypeHistory, PodmanFails, Discharge, podman,
         saves, passes
<1>2. TypeLocal'
  BY DEF IInv, TypeOK, TypeLocal, PodmanFails, Fail, saves
<1>3. ControlStep(t, "dirty") /\ "dirty" \in Location
  BY DEF PodmanFails, ControlStep, Count, Bracketed, Locked, Location,
         IInv, TypeOK, TypeControl
<1>4. ControlInv'
  BY <1>3, ControlStepKeeps DEF IInv, TypeOK, ControlInv
<1>5. EntriesPresent'
  BY <1>3, EntriesKept DEF PodmanFails, NoneLost
<1>. QED
  BY <1>1, <1>2, <1>4, <1>5 DEF IInv, TypeOK, ControlInv

LEMMA StartKeeps ==
    ASSUME IInv, NEW t \in Threads, Start(t)
    PROVE  IInv'
<1>1. pc[t] = "begun" /\ pc[t] \in Locked
  BY DEF Start, Locked
<1>2. CASE FoundMissing(t) \/ PodmanFails(t)
  BY <1>1, <1>2, FoundMissingKeeps, PodmanFailsKeeps
<1>3. CASE ~FoundMissing(t) /\ ~PodmanFails(t)
  <2> DEFINE i == [instances[target[t]] EXCEPT
                      !.status = "running", !.desired = "running",
                      !.exit = 0, !.suspended = FALSE]
             hits == StaleRestore(t) \cup LateStart
  <2>1. /\ container[target[t]] # None /\ StartContainer(target[t])
        /\ Transit(t, i, hits) /\ Attempt(t) /\ UNCHANGED <<failed, resume>>
    BY <1>3 DEF Start
  <2>2. t \in attached => i \in Instance
    BY <1>1, Owned DEF Instance, Status, DesiredState, ExitCode
  <2>3. container' \in ContainerMap
    BY <1>1, <2>1, Owned, ContainerUpdated
  <2>4. asked' \in AskedType /\ hits \in SUBSET Window
    BY <2>1, AttemptTyped, WindowsTyped DEF IInv, TypeOK
  <2>5. failed' \subseteq Threads /\ resume' \subseteq Ids
    BY <2>1 DEF IInv, TypeOK, TypeLocal, TypeHistory
  <2> HIDE DEF i, hits
  <2>. QED
    BY <1>1, <2>1, <2>2, <2>3, <2>4, <2>5, TransitKeeps
<1>. QED
  BY <1>2, <1>3

LEMMA StopKeeps ==
    ASSUME IInv, NEW t \in Threads, Stop(t)
    PROVE  IInv'
<1>1. pc[t] = "begun" /\ pc[t] \in Locked
  BY DEF Stop, Locked
<1>2. CASE FoundMissing(t) \/ PodmanFails(t)
  BY <1>1, <1>2, FoundMissingKeeps, PodmanFailsKeeps
<1>3. CASE ~FoundMissing(t) /\ ~PodmanFails(t)
  <2> DEFINE i == [instances[target[t]] EXCEPT
                      !.status = "stopped", !.desired = "stopped",
                      !.suspended = FALSE]
  <2>1. /\ container[target[t]] # None /\ StopContainer(target[t])
        /\ Transit(t, i, {}) /\ Attempt(t) /\ Discharge(target[t])
        /\ UNCHANGED failed
    BY <1>3 DEF Stop
  <2>2. t \in attached => i \in Instance
    BY <1>1, Owned DEF Instance, Status, DesiredState, ExitCode
  <2>3. container' \in ContainerMap
    BY <1>1, <2>1, Owned, ContainerUpdated
  <2>4. asked' \in AskedType /\ {} \in SUBSET Window
    BY <2>1, AttemptTyped DEF IInv, TypeOK
  <2>5. failed' \subseteq Threads /\ resume' \subseteq Ids
    BY <2>1 DEF IInv, TypeOK, TypeLocal, TypeHistory, Discharge
  <2> HIDE DEF i
  <2>. QED
    BY <1>1, <2>1, <2>2, <2>3, <2>4, <2>5, TransitKeeps
<1>. QED
  BY <1>2, <1>3

LEMMA SetRestartPolicyKeeps ==
    ASSUME IInv, NEW t \in Threads, SetRestartPolicy(t)
    PROVE  IInv'
<1>1. pc[t] = "begun" /\ pc[t] \in Locked
  BY DEF SetRestartPolicy, Locked
<1>2. PICK p \in Policies :
         Transit(t, [instances[target[t]] EXCEPT !.restart = p], {})
  BY DEF SetRestartPolicy
<1>3. t \in attached => [instances[target[t]] EXCEPT !.restart = p] \in Instance
  BY <1>1, Owned, ManagerAssumption DEF Instance
<1>4. /\ container' \in ContainerMap /\ failed' \subseteq Threads
      /\ asked' \in AskedType /\ resume' \subseteq Ids
  BY DEF IInv, TypeOK, TypeWorld, TypeLocal, TypeHistory, AskedType, SetRestartPolicy
<1>5. {} \in SUBSET Window
  OBVIOUS
<1>. QED
  BY <1>1, <1>2, <1>3, <1>4, <1>5, TransitKeeps

LEMMA RestartStopKeeps ==
    ASSUME IInv, NEW t \in Threads, RestartStop(t)
    PROVE  IInv'
<1>1. pc[t] = "begun" /\ pc[t] \in Locked
  BY DEF RestartStop, Locked
<1>2. CASE FoundMissing(t) \/ Abort(t)
  BY <1>1, <1>2, FoundMissingKeeps, AbortKeeps
<1>3. CASE ~FoundMissing(t) /\ ~Abort(t)
  <2>1. /\ container[target[t]] # None /\ StopContainer(target[t])
        /\ Goto(t, "halfway")
        /\ UNCHANGED <<data, file, phase, instances, lock, inflight, moved,
                       locals, saves, passes, history>>
    BY <1>3 DEF RestartStop
  <2>2. container' \in ContainerMap
    BY <1>1, <2>1, Owned, ContainerUpdated
  <2>3. TypeWorld'
    BY <2>1, <2>2 DEF IInv, TypeOK, TypeWorld, saves, passes
  <2>4. TypeLocal' /\ TypeHistory'
    BY <2>1 DEF IInv, TypeOK, TypeLocal, TypeHistory, saves, locals, history
  <2>5. ControlStep(t, "halfway") /\ "halfway" \in Location
    BY <1>1, <2>1 DEF ControlStep, Count, Bracketed, Locked, Location, locals,
                      IInv, TypeOK, TypeControl
  <2>6. ControlInv'
    BY <2>5, ControlStepKeeps DEF IInv, TypeOK, ControlInv
  <2>7. EntriesPresent'
    BY <1>1, <2>1, <2>5, EntriesKept DEF locals, NoneLost
  <2>. QED
    BY <2>3, <2>4, <2>6, <2>7 DEF IInv, TypeOK, ControlInv
<1>. QED
  BY <1>2, <1>3

LEMMA RestartStartKeeps ==
    ASSUME IInv, NEW t \in Threads, RestartStart(t)
    PROVE  IInv'
<1>1. pc[t] = "halfway" /\ pc[t] \in Locked
  BY DEF RestartStart, Locked
<1>2. resume' \subseteq Ids
  BY DEF IInv, TypeOK, TypeHistory, RestartStart, Discharge
<1>3. CASE Attempt(t) /\ StartContainer(target[t]) /\ container[target[t]] # None
           /\ UNCHANGED failed
           /\ Transit(t, [instances[target[t]] EXCEPT
                            !.status = "running", !.desired = "running",
                            !.exit = 0, !.suspended = FALSE], LateStart)
  <2> DEFINE i == [instances[target[t]] EXCEPT
                      !.status = "running", !.desired = "running",
                      !.exit = 0, !.suspended = FALSE]
  <2>1. t \in attached => i \in Instance
    BY <1>1, Owned DEF Instance, Status, DesiredState, ExitCode
  <2>2. container' \in ContainerMap
    BY <1>1, <1>3, Owned, ContainerUpdated
  <2>3. asked' \in AskedType /\ LateStart \in SUBSET Window
    BY <1>3, AttemptTyped, WindowsTyped DEF IInv, TypeOK
  <2>4. failed' \subseteq Threads
    BY <1>3 DEF IInv, TypeOK, TypeLocal
  <2>5. Transit(t, i, LateStart)
    BY <1>3
  <2> HIDE DEF i
  <2>. QED
    BY <1>1, <1>2, <2>1, <2>2, <2>3, <2>4, <2>5, TransitKeeps
<1>4. CASE Fail(t) /\ UNCHANGED <<container, asked>>
           /\ Transit(t, [instances[target[t]] EXCEPT !.status = "stopped"], {})
  <2>1. t \in attached => [instances[target[t]] EXCEPT !.status = "stopped"] \in Instance
    BY <1>1, Owned DEF Instance, Status
  <2>2. /\ container' \in ContainerMap /\ failed' \subseteq Threads
        /\ asked' \in AskedType /\ {} \in SUBSET Window
    BY <1>4 DEF IInv, TypeOK, TypeWorld, TypeLocal, TypeHistory, AskedType, Fail
  <2>. QED
    BY <1>1, <1>2, <1>4, <2>1, <2>2, TransitKeeps
<1>. QED
  BY <1>3, <1>4 DEF RestartStart

LEMMA RemoveContainerKeeps ==
    ASSUME IInv, NEW t \in Threads, RemoveContainer(t)
    PROVE  IInv'
<1>1. pc[t] = "begun" /\ pc[t] \in Locked
  BY DEF RemoveContainer, Locked
<1>2. CASE RemovalFailed(t)
  BY <1>1, <1>2, AbortKeeps DEF RemovalFailed
<1>3. CASE ~RemovalFailed(t)
  <2>1. /\ container' = [container EXCEPT ![target[t]] = None]
        /\ Goto(t, "removed") /\ Discharge(target[t])
        /\ UNCHANGED <<data, file, phase, instances, lock, inflight, moved,
                       locals, saves, passes, asked, windows, older, behind>>
    BY <1>3 DEF RemoveContainer
  <2>2. TypeWorld'
    BY <2>1 DEF IInv, TypeOK, TypeWorld, ContainerMap, saves, passes
  <2>3. TypeLocal' /\ TypeHistory'
    BY <2>1 DEF IInv, TypeOK, TypeLocal, TypeHistory, Discharge, saves, locals
  <2>4. ControlStep(t, "removed") /\ "removed" \in Location
    BY <1>1, <2>1 DEF ControlStep, Count, Bracketed, Locked, Location, locals,
                      IInv, TypeOK, TypeControl
  <2>5. ControlInv'
    BY <2>4, ControlStepKeeps DEF IInv, TypeOK, ControlInv
  <2>6. EntriesPresent'
    BY <2>1, <2>4, EntriesKept DEF locals, NoneLost
  <2>. QED
    BY <2>2, <2>3, <2>5, <2>6 DEF IInv, TypeOK, ControlInv
<1>. QED
  BY <1>2, <1>3

LEMMA RemoveEntryKeeps ==
    ASSUME IInv, NEW t \in Threads, RemoveEntry(t)
    PROVE  IInv'
<1>1. pc[t] = "removed" /\ pc[t] \in Locked
  BY DEF RemoveEntry, Locked
<1>2. CASE Abort(t)
  BY <1>1, <1>2, AbortKeeps
<1>3. CASE ~Abort(t)
  <2>1. /\ data' \in {data, data \ {target[t]}}
        /\ Delete(target[t]) /\ Goto(t, "dirty") /\ Attempt(t)
        /\ UNCHANGED <<container, file, phase, lock, inflight, moved, locals,
                       saves, passes, windows, older, behind, resume>>
    BY <1>3 DEF RemoveEntry
  <2>2. EntriesPresent' /\ instances' \in InstanceMap
    BY <1>1, <2>1, EntryDeleted DEF Location, locals
  <2>3. data' \subseteq Ids
    BY <2>1 DEF IInv, TypeOK, TypeWorld
  <2>4. TypeWorld'
    BY <2>1, <2>2, <2>3 DEF IInv, TypeOK, TypeWorld, saves, passes
  <2>5. TypeLocal'
    BY <2>1 DEF IInv, TypeOK, TypeLocal, saves, locals
  <2>6. asked' \in AskedType
    BY <2>1, AttemptTyped DEF IInv, TypeOK
  <2>7. TypeHistory'
    BY <2>1, <2>6 DEF IInv, TypeOK, TypeHistory, AskedType
  <2>8. ControlStep(t, "dirty") /\ "dirty" \in Location
    BY <1>1, <2>1 DEF ControlStep, Count, Bracketed, Locked, Location, locals,
                      IInv, TypeOK, TypeControl
  <2>9. ControlInv'
    BY <2>8, ControlStepKeeps DEF IInv, TypeOK, ControlInv
  <2>. QED
    BY <2>2, <2>4, <2>5, <2>7, <2>9 DEF IInv, TypeOK, ControlInv
<1>. QED
  BY <1>2, <1>3

-----------------------------------------------------------------------------
(* Create                                                                  *)

LEMMA CreateAbandonKeeps ==
    ASSUME IInv, NEW t \in Threads, CreateAbandon(t)
    PROVE  IInv'
BY AbortKeeps DEF CreateAbandon, Locked

LEMMA CreateEntryKeeps ==
    ASSUME IInv, NEW t \in Threads, CreateEntry(t)
    PROVE  IInv'
<1>1. pc[t] = "pulling" /\ pc[t] \in Locked /\ target[t] \in Ids
  BY Owned DEF CreateEntry, Locked
<1>2. PICK i \in Instance : instances' = [instances EXCEPT ![target[t]] = i]
  BY ManagerAssumption
     DEF CreateEntry, Instance, Status, DesiredState, DesiredFor, ExitCode
<1>3. instances' \in InstanceMap /\ NoneLost /\ instances'[target[t]] # None
  BY <1>1, <1>2, NoneAssumption DEF IInv, TypeOK, TypeWorld, InstanceMap, NoneLost
<1>4. TypeWorld'
  BY <1>3 DEF IInv, TypeOK, TypeWorld, CreateEntry, podman, saves, passes
<1>5. TypeLocal'
  BY DEF IInv, TypeOK, TypeLocal, CreateEntry, Bracket, Bump, saves, locals
<1>6. TypeHistory'
  BY AttemptTyped DEF IInv, TypeOK, TypeHistory, AskedType, CreateEntry
<1>7. ControlStep(t, "entered") /\ "entered" \in Location
  BY DEF CreateEntry, Bracket, ControlStep, Count, Bracketed, Locked, Location,
         locals, IInv, TypeOK, TypeControl
<1>8. ControlInv'
  BY <1>7, ControlStepKeeps DEF IInv, TypeOK, ControlInv
<1>9. EntriesPresent'
  BY <1>3, <1>7 DEF IInv, TypeOK, TypeControl, EntriesPresent, LocksHeld, Locked,
                    ControlStep, Goto, NoneLost, CreateEntry, locals
<1>. QED
  BY <1>4, <1>5, <1>6, <1>8, <1>9 DEF IInv, TypeOK, ControlInv

LEMMA CreateSavedKeeps ==
    ASSUME IInv, NEW t \in Threads, NEW saved \in BOOLEAN, CreateSaved(t, saved)
    PROVE  IInv'
<1>1. pc[t] = "entered" /\ pc[t] \in Locked
  BY DEF CreateSaved, Locked
<1>2. /\ file' \in InstanceMap /\ view' \in [Threads -> InstanceMap]
      /\ saving' \subseteq Threads /\ windows' \subseteq Window
      /\ older' \in [Threads -> SUBSET Threads]
      /\ UNCHANGED <<container, data, phase, live, behind>>
  BY WriteTyped DEF CreateSaved
<1>3. PICK l \in {"recorded", "rollback"} :
         /\ Goto(t, l)
         /\ \/ l = "recorded" /\ instances' = instances
            \/ l = "rollback" /\ Delete(target[t])
  BY DEF CreateSaved
<1>4. EntriesPresent' /\ instances' \in InstanceMap
  <2>1. CASE l = "recorded"
    BY <1>1, <1>3, <2>1, Owned, EntriesKept DEF CreateSaved, NoneLost, Location
  <2>2. CASE l = "rollback"
    BY <1>1, <1>3, <2>2, EntryDeleted DEF CreateSaved, Location
  <2>. QED
    BY <2>1, <2>2
<1>5. TypeWorld'
  BY <1>2, <1>4 DEF IInv, TypeOK, TypeWorld
<1>6. TypeLocal'
  BY <1>2 DEF IInv, TypeOK, TypeLocal, CreateSaved, Fail
<1>7. TypeHistory'
  BY <1>2 DEF IInv, TypeOK, TypeHistory, CreateSaved
<1>8. ControlStep(t, l) /\ l \in Location
  BY <1>1, <1>2, <1>3 DEF CreateSaved, ControlStep, Count, Bracketed, Locked,
                          Location, IInv, TypeOK, TypeControl
<1>9. ControlInv'
  BY <1>8, ControlStepKeeps DEF IInv, TypeOK, ControlInv
<1>. QED
  BY <1>4, <1>5, <1>6, <1>7, <1>9 DEF IInv, TypeOK, ControlInv

LEMMA CreateContainerKeeps ==
    ASSUME IInv, NEW t \in Threads, CreateContainer(t)
    PROVE  IInv'
<1>1. pc[t] = "recorded" /\ pc[t] \in Locked /\ target[t] \in Ids
      /\ instances[target[t]] \in Instance
  BY Owned DEF CreateContainer, Locked
<1>2. PICK l \in {"created", "dirty", "rollback"} : Goto(t, l)
  BY DEF CreateContainer
<1>3. /\ EntriesPresent' /\ instances' \in InstanceMap
      /\ container' \in ContainerMap /\ data' \subseteq Ids
      /\ failed' \subseteq Threads
  <2>1. CASE Goto(t, "rollback") /\ Delete(target[t]) /\ Fail(t)
             /\ data' \in {data, data \cup {target[t]}} /\ UNCHANGED container
    <3>1. EntriesPresent' /\ instances' \in InstanceMap
      BY <1>1, <2>1, EntryDeleted DEF CreateContainer, Location
    <3>. QED
      BY <1>1, <2>1, <3>1 DEF IInv, TypeOK, TypeWorld, TypeLocal, Fail
  <2>2. CASE /\ instances' = [instances EXCEPT ![target[t]].status = "stopped"]
             /\ container' = [container EXCEPT ![target[t]] =
                    [state |-> "stopped", exit |-> 0,
                     restart |-> instances[target[t]].restart,
                     desired |-> instances[target[t]].desired]]
             /\ data' = data \cup {target[t]} /\ UNCHANGED failed
    <3>1. PICK i \in Instance : instances' = [instances EXCEPT ![target[t]] = i]
      BY <1>1, <2>2 DEF Instance, Status, IInv, TypeOK, TypeWorld, InstanceMap
    <3>2. instances' \in InstanceMap /\ NoneLost
      BY <3>1, NoneAssumption DEF IInv, TypeOK, TypeWorld, InstanceMap, NoneLost
    <3>3. PICK c \in Container : container' = [container EXCEPT ![target[t]] = c]
      BY <1>1, <2>2 DEF Instance, Container, ExitCode
    <3>4. container' \in ContainerMap
      BY <3>3 DEF IInv, TypeOK, TypeWorld, ContainerMap
    <3>5. EntriesPresent'
      BY <1>1, <1>2, <3>2, EntriesKept DEF CreateContainer, Location
    <3>. QED
      BY <1>1, <2>2, <3>2, <3>4, <3>5 DEF IInv, TypeOK, TypeWorld, TypeLocal
  <2>. QED
    BY <2>1, <2>2 DEF CreateContainer
<1>4. TypeWorld'
  BY <1>3 DEF IInv, TypeOK, TypeWorld, CreateContainer, saves, passes
<1>5. TypeLocal' /\ TypeHistory'
  BY <1>3 DEF IInv, TypeOK, TypeLocal, TypeHistory, CreateContainer, saves, history
<1>6. ControlStep(t, l) /\ l \in Location
  BY <1>1, <1>2 DEF CreateContainer, ControlStep, Count, Bracketed, Locked,
                    Location, IInv, TypeOK, TypeControl
<1>7. ControlInv'
  BY <1>6, ControlStepKeeps DEF IInv, TypeOK, ControlInv
<1>. QED
  BY <1>3, <1>4, <1>5, <1>7 DEF IInv, TypeOK, ControlInv

LEMMA CreateStartKeeps ==
    ASSUME IInv, NEW t \in Threads, CreateStart(t)
    PROVE  IInv'
<1>1. pc[t] = "created" /\ pc[t] \in Locked /\ target[t] \in Ids
      /\ instances[target[t]] \in Instance
  BY Owned DEF CreateStart, Locked
<1>2. PICK i \in Instance : instances' = [instances EXCEPT ![target[t]] = i]
  <2>1. instances = [instances EXCEPT ![target[t]] = instances[target[t]]]
    BY DEF IInv, TypeOK, TypeWorld, InstanceMap
  <2>2. [instances[target[t]] EXCEPT !.status = "running"] \in Instance
    BY <1>1 DEF Instance, Status
  <2>. QED
    BY <1>1, <2>1, <2>2 DEF CreateStart
<1>3. instances' \in InstanceMap /\ NoneLost
  BY <1>2, NoneAssumption DEF IInv, TypeOK, TypeWorld, InstanceMap, NoneLost
<1>4. container' \in ContainerMap
  BY <1>1, Owned, ContainerUpdated DEF CreateStart
<1>5. TypeWorld'
  BY <1>3, <1>4 DEF IInv, TypeOK, TypeWorld, CreateStart, saves, passes
<1>6. TypeLocal'
  BY DEF IInv, TypeOK, TypeLocal, CreateStart, Fail, saves
<1>7. TypeHistory'
  BY DEF IInv, TypeOK, TypeHistory, CreateStart, Through, LateStart, Window
<1>8. ControlStep(t, "dirty") /\ "dirty" \in Location
  BY <1>1 DEF CreateStart, ControlStep, Count, Bracketed, Locked, Location,
              IInv, TypeOK, TypeControl
<1>9. ControlInv'
  BY <1>8, ControlStepKeeps DEF IInv, TypeOK, ControlInv
<1>10. EntriesPresent'
  BY <1>3, <1>8, EntriesKept DEF CreateStart, ControlStep
<1>. QED
  BY <1>5, <1>6, <1>7, <1>9, <1>10 DEF IInv, TypeOK, ControlInv

LEMMA SnapshotKeeps ==
    ASSUME IInv, NEW t \in Threads, Snapshot(t)
    PROVE  IInv'
<1>1. TypeWorld'
  BY DEF IInv, TypeOK, TypeWorld, Snapshot, podman, passes
<1>2. TypeLocal'
  BY DEF IInv, TypeOK, TypeLocal, Snapshot, SaveBump, Bump, locals
<1>3. TypeHistory'
  BY DEF IInv, TypeOK, TypeLocal, TypeHistory, Snapshot, passes
<1>4. ControlStill /\ UNCHANGED <<instances, attached>>
  BY DEF Snapshot, ControlStill, locals
<1>5. ControlInv'
  BY <1>4, ControlStillKeeps DEF IInv, TypeOK, ControlInv
<1>6. EntriesPresent'
  BY <1>4 DEF IInv, EntriesPresent, ControlStill
<1>. QED
  BY <1>1, <1>2, <1>3, <1>5, <1>6 DEF IInv, TypeOK, ControlInv

-----------------------------------------------------------------------------
(* Reconcile                                                               *)

LEMMA LoadKeeps ==
    ASSUME IInv, NEW t \in Threads, Load(t)
    PROVE  IInv'
<1>1. TypeWorld'
  BY DEF IInv, TypeOK, TypeWorld, Load, podman
<1>2. TypeLocal' /\ TypeHistory'
  BY DEF IInv, TypeOK, TypeLocal, TypeHistory, Load, locals
<1>3. ControlStep(t, "loaded") /\ "loaded" \in Location
  BY DEF Load, ControlStep, Count, Bracketed, Locked, Location, locals,
         IInv, TypeOK, TypeControl
<1>4. ControlInv'
  BY <1>3, ControlStepKeeps DEF IInv, TypeOK, ControlInv
<1>5. EntriesPresent'
  BY <1>3, EntriesKept DEF Load, locals, NoneLost
<1>. QED
  BY <1>1, <1>2, <1>4, <1>5 DEF IInv, TypeOK, ControlInv

LEMMA ListManagedKeeps ==
    ASSUME IInv, NEW t \in Threads, ListManaged(t)
    PROVE  IInv'
<1>1. TypeWorld'
  BY DEF IInv, TypeOK, TypeWorld, ListManaged, podman, saves
<1>2. TypeLocal' /\ TypeHistory'
  BY DEF IInv, TypeOK, TypeLocal, TypeHistory, ListManaged, locals, saves, history
<1>3. ControlStep(t, "listed") /\ "listed" \in Location
  BY DEF ListManaged, ControlStep, Count, Bracketed, Locked, Location, locals,
         IInv, TypeOK, TypeControl
<1>4. ControlInv'
  BY <1>3, ControlStepKeeps DEF IInv, TypeOK, ControlInv
<1>5. EntriesPresent'
  BY <1>3, EntriesKept DEF ListManaged, locals, NoneLost
<1>. QED
  BY <1>1, <1>2, <1>4, <1>5 DEF IInv, TypeOK, ControlInv

(* Where a pass goes next is outside every mutex and every bracket.        *)
LEMMA AfterPassKeeps ==
    ASSUME IInv, NEW t \in Threads, NEW ok \in BOOLEAN, AfterPass(t, ok),
           pc[t] \in {"loaded", "listed", "drifted"}
    PROVE  /\ ControlInv'
           /\ op' \in [Threads -> Ops \cup {"supervise", None}]
           /\ \E l \in {"suspend", "restore", "idle"} : Goto(t, l)
<1>1. PICK l \in {"suspend", "restore", "idle"} : Goto(t, l)
  BY DEF AfterPass
<1>2. ControlStep(t, l) /\ l \in Location
  BY <1>1 DEF AfterPass, ControlStep, Count, Bracketed, Locked, Location,
              IInv, TypeOK, TypeControl
<1>3. ControlInv'
  BY <1>2, ControlStepKeeps DEF IInv, TypeOK, ControlInv
<1>4. op' \in [Threads -> Ops \cup {"supervise", None}]
  BY DEF IInv, TypeOK, TypeLocal, AfterPass
<1>. QED
  BY <1>1, <1>3, <1>4

(* A pass that ends without a commit.                                      *)
LEMMA PassEndsKeeps ==
    ASSUME IInv, NEW t \in Threads, NEW ok \in BOOLEAN, AfterPass(t, ok),
           pc[t] \in {"loaded", "listed"}, EndRead(t),
           UNCHANGED <<instances, attached, windows>>
    PROVE  IInv'
<1>1. PICK l \in {"suspend", "restore", "idle"} : Goto(t, l)
  BY AfterPassKeeps
<1>2. ControlInv' /\ op' \in [Threads -> Ops \cup {"supervise", None}]
  BY AfterPassKeeps
<1>3. TypeWorld'
  BY DEF IInv, TypeOK, TypeWorld, AfterPass, EndRead, podman, NoMap, InstanceMap,
         ContainerMap
<1>4. TypeLocal'
  BY <1>2 DEF IInv, TypeOK, TypeLocal, AfterPass, EndRead
<1>5. TypeHistory'
  BY DEF IInv, TypeOK, TypeHistory, AfterPass, EndRead
<1>6. EntriesPresent'
  BY <1>1, EntriesKept DEF AfterPass, NoneLost, Location
<1>. QED
  BY <1>2, <1>3, <1>4, <1>5, <1>6 DEF IInv, TypeOK, ControlInv

LEMMA DiscardKeeps ==
    ASSUME IInv, NEW t \in Threads, Discard(t)
    PROVE  IInv'
BY PassEndsKeeps DEF Discard

LEMMA ListFailsKeeps ==
    ASSUME IInv, NEW t \in Threads, ListFails(t)
    PROVE  IInv'
BY PassEndsKeeps DEF ListFails

LEMMA ReconciledTyped ==
    ASSUME NEW p \in Instance \cup {None}, NEW c \in Container \cup {None}
    PROVE  Reconciled(p, c) \in Instance \cup {None}
<1>1. CASE p # None /\ c # None
  BY <1>1 DEF Reconciled, Refreshed, StatusFrom, Instance, Container, Status, ExitCode
<1>2. CASE p = None /\ c # None
  BY <1>2 DEF Reconciled, FromLabels, StatusFrom, Instance, Container, Status,
              ExitCode, DesiredState, RestartPolicy
<1>3. CASE p # None /\ c = None
  BY <1>3 DEF Reconciled, Instance, Status
<1>4. CASE p = None /\ c = None
  BY <1>4 DEF Reconciled
<1>. QED
  BY <1>1, <1>2, <1>3, <1>4

(* A commit finds no thread that depends on an entry: inflight is zero.    *)
LEMMA CommitKeeps ==
    ASSUME IInv, NEW t \in Threads, Commit(t)
    PROVE  IInv'
<1>1. instances' \in InstanceMap
  <2>1. \A i \in Ids : view[t][i] \in Instance \cup {None}
                       /\ live[t][i] \in Container \cup {None}
    BY DEF IInv, TypeOK, TypeWorld, InstanceMap, ContainerMap
  <2>. QED
    BY <2>1, ReconciledTyped DEF Commit, InstanceMap
<1>2. inflight = 0
  BY DEF Commit, Overtaken, IInv, TypeOK, TypeControl
<1>3. PICK l \in {"drifted", "suspend", "restore", "idle"} : Goto(t, l)
  BY DEF Commit, AfterPass
<1>4. ControlStep(t, l) /\ l \in Location
  BY <1>3 DEF Commit, AfterPass, ControlStep, Count, Bracketed, Locked, Location,
              IInv, TypeOK, TypeControl
<1>5. ControlInv'
  BY <1>4, ControlStepKeeps DEF IInv, TypeOK, ControlInv
<1>6. \A u \in Threads : pc[u] \notin {"entered", "recorded", "created"}
  BY <1>2, InsideCounts DEF IInv, Bracketed, Locked
<1>7. EntriesPresent'
  BY <1>3, <1>6 DEF Commit, EntriesPresent, Goto, IInv, TypeOK, TypeControl
<1>8. UNCHANGED <<podman, failed, todo, asked, resume>>
  BY DEF Commit, AfterPass
<1>9. TypeWorld'
  BY <1>1, <1>8 DEF IInv, TypeOK, TypeWorld, Commit, EndRead, podman, NoMap,
                    InstanceMap, ContainerMap
<1>10. op' \in [Threads -> Ops \cup {"supervise", None}]
  BY DEF IInv, TypeOK, TypeLocal, Commit, AfterPass
<1>11. TypeLocal'
  BY <1>8, <1>10 DEF IInv, TypeOK, TypeLocal, Commit, EndRead
<1>12. TypeHistory'
  BY <1>8 DEF IInv, TypeOK, TypeHistory, Commit, EndRead, Through, Window
<1>. QED
  BY <1>5, <1>7, <1>9, <1>11, <1>12 DEF IInv, TypeOK, ControlInv

LEMMA SaveReconciledKeeps ==
    ASSUME IInv, NEW t \in Threads, NEW saved \in BOOLEAN, SaveReconciled(t, saved)
    PROVE  IInv'
<1>1. /\ file' \in InstanceMap /\ view' \in [Threads -> InstanceMap]
      /\ saving' \subseteq Threads /\ windows' \subseteq Window
      /\ older' \in [Threads -> SUBSET Threads]
      /\ UNCHANGED <<container, data, phase, live, behind>>
  BY WriteTyped DEF SaveReconciled
<1>2. PICK l \in {"suspend", "restore", "idle"} : Goto(t, l)
  BY AfterPassKeeps DEF SaveReconciled
<1>3. ControlInv' /\ op' \in [Threads -> Ops \cup {"supervise", None}]
  BY AfterPassKeeps DEF SaveReconciled
<1>4. TypeWorld'
  BY <1>1 DEF IInv, TypeOK, TypeWorld, SaveReconciled
<1>5. TypeLocal'
  BY <1>1, <1>3 DEF IInv, TypeOK, TypeLocal, SaveReconciled, AfterPass
<1>6. TypeHistory'
  BY <1>1 DEF IInv, TypeOK, TypeHistory, SaveReconciled, AfterPass
<1>7. EntriesPresent'
  BY <1>2, EntriesKept DEF SaveReconciled, AfterPass, NoneLost, Location
<1>. QED
  BY <1>3, <1>4, <1>5, <1>6, <1>7 DEF IInv, TypeOK, ControlInv

-----------------------------------------------------------------------------
(* Restore                                                                 *)

LEMMA TakeCandidatesKeeps ==
    ASSUME IInv, NEW t \in Threads, TakeCandidates(t)
    PROVE  IInv'
<1>1. TypeWorld' /\ TypeHistory'
  BY DEF IInv, TypeOK, TypeWorld, TypeHistory, TakeCandidates, podman, saves,
         passes, history
<1>2. TypeLocal'
  BY DEF IInv, TypeOK, TypeLocal, TakeCandidates, saves
<1>3. ControlStep(t, "restoring") /\ "restoring" \in Location
  BY DEF TakeCandidates, ControlStep, Count, Bracketed, Locked, Location,
         IInv, TypeOK, TypeControl
<1>4. ControlInv'
  BY <1>3, ControlStepKeeps DEF IInv, TypeOK, ControlInv
<1>5. EntriesPresent'
  BY <1>3, EntriesKept DEF TakeCandidates, NoneLost
<1>. QED
  BY <1>1, <1>2, <1>4, <1>5 DEF IInv, TypeOK, ControlInv

LEMMA RestoreNextKeeps ==
    ASSUME IInv, NEW t \in Threads, RestoreNext(t)
    PROVE  IInv'
<1>1. PICK i \in Ids :
         /\ lock[i] = None
         /\ todo' = [todo EXCEPT ![t] = @ \ {i}]
         /\ \/ /\ instances[i] # None
               /\ lock' = [lock EXCEPT ![i] = t]
               /\ target' = [target EXCEPT ![t] = i]
               /\ attached' = attached \cup {t}
               /\ Goto(t, "locked")
               /\ UNCHANGED resume
            \/ Discharge(i) /\ UNCHANGED <<lock, target, attached, pc>>
  BY DEF RestoreNext
<1>2. UNCHANGED <<podman, file, phase, instances, inflight, moved, op, failed,
                  saves, passes, asked, windows, older, behind>>
      /\ pc[t] = "restoring"
  BY DEF RestoreNext
<1>3. TypeWorld'
  BY <1>2 DEF IInv, TypeOK, TypeWorld, podman, saves, passes
<1>4. TypeLocal'
  BY <1>1, <1>2 DEF IInv, TypeOK, TypeLocal, saves
<1>5. TypeHistory'
  BY <1>1, <1>2 DEF IInv, TypeOK, TypeHistory, Discharge
<1>6. ControlInv' /\ EntriesPresent'
  <2>1. CASE /\ instances[i] # None
             /\ lock' = [lock EXCEPT ![i] = t]
             /\ target' = [target EXCEPT ![t] = i]
             /\ attached' = attached \cup {t}
             /\ Goto(t, "locked")
    <3>1. "locked" \in Location /\ "locked" \notin Bracketed
          /\ "restoring" \notin Bracketed
      BY DEF Location, Bracketed, Locked
    <3>2. InflightExact' /\ inflight' \in Nat
      BY <1>2, <2>1, <3>1, BracketCount DEF Count, IInv, TypeOK, TypeControl
    <3>3. TypeControl'
      BY <1>2, <2>1, <3>1, <3>2 DEF IInv, TypeOK, TypeControl, Goto
    <3>4. LocksHeld' /\ DownIdle'
      BY <1>1, <1>2, <2>1, ManagerAssumption
         DEF IInv, TypeOK, TypeControl, Goto, LocksHeld, DownIdle
    <3>5. EntriesPresent'
      BY <1>2, <2>1 DEF IInv, TypeOK, TypeControl, Goto, EntriesPresent
    <3>. QED
      BY <3>2, <3>3, <3>4, <3>5 DEF ControlInv
  <2>2. CASE UNCHANGED <<lock, target, attached, pc>>
    <3>1. ControlInv'
      BY <1>2, <2>2, ControlStillKeeps DEF IInv, TypeOK, ControlInv, ControlStill
    <3>2. EntriesPresent'
      BY <1>2, <2>2 DEF IInv, EntriesPresent
    <3>. QED
      BY <3>1, <3>2
  <2>. QED
    BY <1>1, <2>1, <2>2
<1>. QED
  BY <1>3, <1>4, <1>5, <1>6 DEF IInv, TypeOK, ControlInv

LEMMA RestoreDoneKeeps ==
    ASSUME IInv, NEW t \in Threads, RestoreDone(t)
    PROVE  IInv'
<1>1. TypeWorld' /\ TypeHistory'
  BY DEF IInv, TypeOK, TypeWorld, TypeHistory, RestoreDone, podman, saves, passes
<1>2. TypeLocal'
  BY DEF IInv, TypeOK, TypeLocal, RestoreDone, saves
<1>3. ControlStep(t, "idle") /\ "idle" \in Location
  BY DEF RestoreDone, ControlStep, Count, Bracketed, Locked, Location,
         IInv, TypeOK, TypeControl
<1>4. ControlInv'
  BY <1>3, ControlStepKeeps DEF IInv, TypeOK, ControlInv
<1>5. EntriesPresent'
  BY <1>3, EntriesKept DEF RestoreDone, NoneLost
<1>. QED
  BY <1>1, <1>2, <1>4, <1>5 DEF IInv, TypeOK, ControlInv

-----------------------------------------------------------------------------
(* Suspend and the end of the daemon                                       *)

LEMMA SuspendBeginKeeps ==
    ASSUME IInv, NEW t \in Threads, SuspendBegin(t)
    PROVE  IInv'
<1>1. TypeWorld' /\ TypeHistory'
  BY DEF IInv, TypeOK, TypeWorld, TypeHistory, SuspendBegin, podman, saves,
         passes, history
<1>2. TypeLocal'
  BY DEF IInv, TypeOK, TypeLocal, SuspendBegin, Bracket, Bump, RunningIds, saves
<1>3. ControlStep(t, "suspending") /\ "suspending" \in Location
  BY DEF SuspendBegin, Bracket, ControlStep, Count, Bracketed, Locked, Location,
         IInv, TypeOK, TypeControl
<1>4. ControlInv'
  BY <1>3, ControlStepKeeps DEF IInv, TypeOK, ControlInv
<1>5. EntriesPresent'
  BY <1>3, EntriesKept DEF SuspendBegin, NoneLost
<1>. QED
  BY <1>1, <1>2, <1>4, <1>5 DEF IInv, TypeOK, ControlInv

LEMMA IfKnownKeeps ==
    ASSUME instances \in InstanceMap, NEW i \in Ids, NEW new,
           instances[i] # None => new \in Instance, IfKnown(i, new)
    PROVE  instances' \in InstanceMap /\ NoneLost
BY NoneAssumption DEF InstanceMap, IfKnown, NoneLost

LEMMA SuspendStopKeeps ==
    ASSUME IInv, NEW t \in Threads, SuspendStop(t)
    PROVE  IInv'
<1> DEFINE mark(i) == [instances[i] EXCEPT !.status = "stopped", !.suspended = TRUE]
           miss(i) == [instances[i] EXCEPT !.status = "missing"]
<1>1. PICK i \in Ids :
         /\ todo' = [todo EXCEPT ![t] = @ \ {i}]
         /\ \/ container[i] # None /\ StopContainer(i)
            \/ UNCHANGED container
         /\ \/ IfKnown(i, mark(i)) \/ IfKnown(i, miss(i)) \/ UNCHANGED instances
         /\ resume' \in {resume, resume \cup {i}}
  BY DEF SuspendStop
<1>2. UNCHANGED <<data, file, phase, lock, inflight, moved, pc, op, target,
                  failed, attached, saves, passes, asked, windows, older, behind>>
  BY DEF SuspendStop
<1>3. container' \in ContainerMap
  BY <1>1, ContainerUpdated DEF IInv, TypeOK, TypeWorld
<1>4. instances' \in InstanceMap /\ NoneLost
  <2>1. instances[i] # None => mark(i) \in Instance /\ miss(i) \in Instance
    BY DEF IInv, TypeOK, TypeWorld, InstanceMap, Instance, Status
  <2> HIDE DEF mark, miss
  <2>2. instances \in InstanceMap
    BY DEF IInv, TypeOK, TypeWorld
  <2>. QED
    BY <1>1, <2>1, <2>2, IfKnownKeeps DEF NoneLost
<1>5. TypeWorld'
  BY <1>2, <1>3, <1>4 DEF IInv, TypeOK, TypeWorld, saves, passes
<1>6. TypeLocal'
  BY <1>1, <1>2 DEF IInv, TypeOK, TypeLocal, saves
<1>7. TypeHistory'
  BY <1>1, <1>2 DEF IInv, TypeOK, TypeHistory
<1>8. ControlInv'
  BY <1>2, ControlStillKeeps DEF IInv, TypeOK, ControlInv, ControlStill
<1>9. EntriesPresent'
  BY <1>2, <1>4 DEF IInv, EntriesPresent, LocksHeld, NoneLost, Locked
<1>. QED
  BY <1>5, <1>6, <1>7, <1>8, <1>9 DEF IInv, TypeOK, ControlInv

LEMMA SuspendDoneKeeps ==
    ASSUME IInv, NEW t \in Threads, SuspendDone(t)
    PROVE  IInv'
<1>1. TypeWorld' /\ TypeHistory' /\ TypeLocal'
  BY DEF IInv, TypeOK, TypeWorld, TypeHistory, TypeLocal, SuspendDone, podman,
         saves, passes, history, locals
<1>2. ControlStep(t, "suspended") /\ "suspended" \in Location
  BY DEF SuspendDone, ControlStep, Count, Bracketed, Locked, Location, locals,
         IInv, TypeOK, TypeControl
<1>3. ControlInv'
  BY <1>2, ControlStepKeeps DEF IInv, TypeOK, ControlInv
<1>4. EntriesPresent'
  BY <1>2, EntriesKept DEF SuspendDone, NoneLost, locals
<1>. QED
  BY <1>1, <1>3, <1>4 DEF IInv, TypeOK, ControlInv

LEMMA SaveSuspendedKeeps ==
    ASSUME IInv, NEW t \in Threads, NEW saved \in BOOLEAN, SaveSuspended(t, saved)
    PROVE  IInv'
<1>1. /\ file' \in InstanceMap /\ view' \in [Threads -> InstanceMap]
      /\ saving' \subseteq Threads /\ windows' \subseteq Window
      /\ older' \in [Threads -> SUBSET Threads]
      /\ UNCHANGED <<container, data, phase, live, behind>>
  BY WriteTyped DEF SaveSuspended
<1>2. TypeWorld'
  BY <1>1 DEF IInv, TypeOK, TypeWorld, SaveSuspended
<1>3. TypeLocal'
  BY <1>1 DEF IInv, TypeOK, TypeLocal, SaveSuspended, locals
<1>4. TypeHistory'
  BY <1>1 DEF IInv, TypeOK, TypeHistory, SaveSuspended
<1>5. ControlStep(t, "quit") /\ "quit" \in Location
  BY <1>1 DEF SaveSuspended, ControlStep, Count, Bracketed, Locked, Location,
              locals, IInv, TypeOK, TypeControl
<1>6. ControlInv'
  BY <1>5, ControlStepKeeps DEF IInv, TypeOK, ControlInv
<1>7. EntriesPresent'
  BY <1>5, EntriesKept DEF SaveSuspended, NoneLost, locals
<1>. QED
  BY <1>2, <1>3, <1>4, <1>6, <1>7 DEF IInv, TypeOK, ControlInv

LEMMA DownKeeps ==
    ASSUME IInv, Down, resume' \subseteq Ids
    PROVE  IInv'
<1>1. TypeWorld'
  BY DEF IInv, TypeOK, TypeWorld, Down, podman, NoMap, InstanceMap, ContainerMap
<1>2. TypeLocal'
  BY DEF Down, TypeLocal
<1>3. TypeHistory'
  BY DEF IInv, TypeOK, TypeHistory, Down
<1>4. \A u \in Threads : pc'[u] = "idle"
  BY DEF Down
<1>5. InflightExact'
  <2>1. {u \in Threads : pc'[u] \in Bracketed} = {}
    BY <1>4 DEF Bracketed, Locked
  <2>. QED
    BY <2>1, FS_EmptySet DEF Down, InflightExact
<1>6. TypeControl'
  BY DEF Down, TypeControl, Location, NoMap
<1>7. LocksHeld' /\ EntriesPresent' /\ DownIdle'
  BY <1>4 DEF LocksHeld, EntriesPresent, DownIdle, Locked
<1>. QED
  BY <1>1, <1>2, <1>3, <1>5, <1>6, <1>7 DEF IInv, TypeOK

LEMMA EndsKeep ==
    ASSUME IInv, Crash \/ BootFails \/ \E t \in Threads : Quit(t)
    PROVE  IInv'
<1>1. Down /\ resume' \subseteq Ids
  BY DEF Crash, BootFails, Quit, IInv, TypeOK, TypeHistory
<1>. QED
  BY <1>1, DownKeeps

LEMMA LaunchKeeps ==
    ASSUME IInv, Launch \/ Tick
    PROVE  IInv'
<1>1. Supervisor \in Threads /\ pc[Supervisor] = "idle"
  BY DEF Launch, Tick, Threads, IInv, DownIdle
<1>2. TypeWorld' /\ TypeHistory'
  BY DEF IInv, TypeOK, TypeWorld, TypeHistory, Launch, Tick, podman, saves,
         passes, history
<1>3. TypeLocal'
  BY DEF IInv, TypeOK, TypeLocal, Launch, Tick, saves
<1>4. ControlStep(Supervisor, "load") /\ "load" \in Location
  BY <1>1 DEF Launch, Tick, ControlStep, Count, Bracketed, Locked, Location,
              IInv, TypeOK, TypeControl
<1>5. ControlInv'
  BY <1>1, <1>4, ControlStepKeeps DEF IInv, TypeOK, ControlInv
<1>6. EntriesPresent'
  BY <1>1, <1>4, EntriesKept DEF Launch, Tick, NoneLost
<1>. QED
  BY <1>2, <1>3, <1>5, <1>6 DEF IInv, TypeOK, ControlInv

(* What happens behind the daemon leaves its memory alone.                 *)
LEMMA ExternalKeeps ==
    ASSUME IInv, External, container' \in ContainerMap, file' \in InstanceMap,
           windows' \subseteq Window, resume' \subseteq Ids
    PROVE  IInv'
<1>1. TypeWorld'
  BY DEF IInv, TypeOK, TypeWorld, External, saves, passes
<1>2. TypeLocal'
  BY DEF IInv, TypeOK, TypeLocal, External, saves, locals
<1>3. TypeHistory'
  BY DEF IInv, TypeOK, TypeHistory, External
<1>4. ControlInv'
  BY ControlStillKeeps DEF IInv, TypeOK, ControlInv, ControlStill, External, locals
<1>5. EntriesPresent'
  BY DEF IInv, EntriesPresent, External, locals
<1>. QED
  BY <1>1, <1>2, <1>3, <1>4, <1>5 DEF IInv, TypeOK, ControlInv

LEMMA EventsKeep ==
    ASSUME IInv,
           FileMovedAside \/ \E i \in Ids : ContainerExits(i) \/ ContainerRemoved(i)
    PROVE  IInv'
<1>1. External /\ resume' \subseteq Ids /\ windows' \subseteq Window
      /\ file' \in InstanceMap
  BY DEF FileMovedAside, ContainerExits, ContainerRemoved, Discharge, Through,
         Window, NoMap, InstanceMap, IInv, TypeOK, TypeHistory, TypeWorld
<1>2. container' \in ContainerMap
  <2>1. CASE FileMovedAside
    BY <2>1 DEF FileMovedAside, IInv, TypeOK, TypeWorld
  <2>2. ASSUME NEW i \in Ids, ContainerExits(i)
        PROVE  container' \in ContainerMap
    BY <2>2, ContainerUpdated DEF ContainerExits, IInv, TypeOK, TypeWorld
  <2>3. ASSUME NEW i \in Ids, ContainerRemoved(i)
        PROVE  container' \in ContainerMap
    BY <2>3 DEF ContainerRemoved, ContainerMap, IInv, TypeOK, TypeWorld
  <2>. QED
    BY <2>1, <2>2, <2>3
<1>. QED
  BY <1>1, <1>2, ExternalKeeps

-----------------------------------------------------------------------------
(* The theorems                                                            *)

LEMMA InitHolds == Init => IInv
<1> SUFFICES ASSUME Init PROVE IInv
  OBVIOUS
<1>1. TypeWorld
  BY DEF Init, TypeWorld, NoMap, InstanceMap, ContainerMap
<1>2. TypeControl /\ TypeLocal /\ TypeHistory
  BY DEF Init, TypeControl, TypeLocal, TypeHistory, NoMap, Location
<1>3. \A u \in Threads : pc[u] = "idle"
  BY DEF Init
<1>4. InflightExact
  <2>1. {u \in Threads : pc[u] \in Bracketed} = {}
    BY <1>3 DEF Bracketed, Locked
  <2>. QED
    BY <2>1, FS_EmptySet DEF Init, InflightExact
<1>5. LocksHeld /\ EntriesPresent /\ DownIdle
  BY <1>3 DEF LocksHeld, EntriesPresent, DownIdle, Locked
<1>. QED
  BY <1>1, <1>2, <1>4, <1>5 DEF IInv, TypeOK

LEMMA StepKeeps ==
    ASSUME IInv, NEW t \in Threads, Step(t)
    PROVE  IInv'
<1>1. CASE Acquire(t)
  BY <1>1, AcquireKeeps
<1>2. CASE Refuse(t)
  BY <1>2, AbortKeeps DEF Refuse
<1>3. CASE Transition(t)
  BY <1>3, BeginKeeps, StartKeeps, StopKeeps, SetRestartPolicyKeeps,
     RestartStopKeeps, RestartStartKeeps, RemoveContainerKeeps, RemoveEntryKeeps
     DEF Transition
<1>4. CASE Creation(t)
  BY <1>4, CreateAbandonKeeps, CreateEntryKeeps, CreateContainerKeeps,
     CreateStartKeeps DEF Creation
<1>5. CASE Pass(t)
  BY <1>5, LoadKeeps, ListManagedKeeps, CommitKeeps, DiscardKeeps, ListFailsKeeps
     DEF Pass
<1>6. CASE Restoration(t)
  BY <1>6, TakeCandidatesKeeps, RestoreNextKeeps, RestoreDoneKeeps DEF Restoration
<1>7. CASE Suspension(t)
  BY <1>7, SuspendBeginKeeps, SuspendStopKeeps, SuspendDoneKeeps, EndsKeep
     DEF Suspension
<1>8. CASE Snapshot(t)
  BY <1>8, SnapshotKeeps
<1>9. CASE \E saved \in BOOLEAN : Saving(t, saved)
  BY <1>9, CreateSavedKeeps, SaveAndFinishKeeps, SaveReconciledKeeps,
     SaveSuspendedKeeps DEF Saving
<1>. QED
  BY <1>1, <1>2, <1>3, <1>4, <1>5, <1>6, <1>7, <1>8, <1>9 DEF Step

LEMMA StutterKeeps ==
    ASSUME IInv, UNCHANGED vars
    PROVE  IInv'
<1>1. TypeWorld' /\ TypeLocal' /\ TypeHistory'
  BY DEF IInv, TypeOK, TypeWorld, TypeLocal, TypeHistory, vars, podman, locals, history
<1>2. ControlInv'
  BY ControlStillKeeps DEF IInv, TypeOK, ControlInv, ControlStill, vars, locals
<1>3. EntriesPresent'
  BY DEF IInv, EntriesPresent, vars, locals
<1>. QED
  BY <1>1, <1>2, <1>3 DEF IInv, TypeOK, ControlInv

LEMMA NextKeeps == IInv /\ [Next]_vars => IInv'
<1> SUFFICES ASSUME IInv, [Next]_vars PROVE IInv'
  OBVIOUS
<1>1. CASE \E t \in Threads : Step(t)
  BY <1>1, StepKeeps
<1>2. CASE Launch \/ Tick
  BY <1>2, LaunchKeeps
<1>3. CASE BootFails \/ Crash
  BY <1>3, EndsKeep
<1>4. CASE \E t \in Clients, o \in Ops, i \in Ids : Request(t, o, i)
  BY <1>4, RequestKeeps DEF Threads
<1>5. CASE FileMovedAside \/ \E i \in Ids : ContainerExits(i) \/ ContainerRemoved(i)
  BY <1>5, EventsKeep
<1>6. CASE UNCHANGED vars
  BY <1>6, StutterKeeps
<1>. QED
  BY <1>1, <1>2, <1>3, <1>4, <1>5, <1>6 DEF Next, Environment

(* The inductive invariant holds: every request keeps the mutex it relies  *)
(* on and the entry it writes to, on every path through manager.go.        *)
THEOREM InductiveInvariant == Spec => []IInv
<1>. QED
  BY InitHolds, NextKeeps, PTL DEF Spec

(* No step writes a value the program could not hold: in particular no     *)
(* request ever changes the fields of an instance that is not there.       *)
THEOREM TypeCorrect == Spec => []TypeOK
<1>1. IInv => TypeOK
  BY DEF IInv
<1>. QED
  BY <1>1, InductiveInvariant, PTL

(* inflight counts exactly the mutations under way (manager.go:114-124),   *)
(* on early returns, failures and restarts too.                            *)
THEOREM BracketBalanced == Spec => []InflightExact
<1>1. IInv => InflightExact
  BY DEF IInv
<1>. QED
  BY <1>1, InductiveInvariant, PTL

(* The entry a bracketed request works on is in the map until the request  *)
(* itself takes it out: no pass that read the file earlier drops it.       *)
THEOREM EntriesStay == Spec => []EntriesPresent
<1>1. IInv => EntriesPresent
  BY DEF IInv
<1>. QED
  BY <1>1, InductiveInvariant, PTL

-----------------------------------------------------------------------------
(* Isolation                                                               *)

OnlyOwn(u) == \A i \in Ids : i # target[u] => instances'[i] = instances[i]

(* A request changes the map at its own id only, and moves on when it does.*)
LEMMA RequestWritesOwn ==
    ASSUME IInv, NEW u \in Threads,
           \/ Acquire(u) \/ Refuse(u) \/ Transition(u) \/ Creation(u)
           \/ \E saved \in BOOLEAN : CreateSaved(u, saved) \/ SaveAndFinish(u, saved)
    PROVE  instances' = instances \/ (pc[u] \in Locked /\ OnlyOwn(u) /\ pc'[u] # pc[u])
<1> USE DEF IInv, TypeOK, TypeWorld, TypeControl, InstanceMap, OnlyOwn, Locked, Goto
<1>1. CASE Acquire(u) \/ Refuse(u) \/ Begin(u) \/ CreateAbandon(u)
  BY <1>1 DEF Acquire, Refuse, Begin, CreateAbandon, Abort
<1>2. ASSUME NEW i, NEW hits, Transit(u, i, hits), pc[u] \in {"begun", "halfway"}
      PROVE  pc[u] \in Locked /\ OnlyOwn(u) /\ pc'[u] # pc[u]
  BY <1>2 DEF Transit, Mutate
<1>3. CASE Start(u) \/ Stop(u) \/ SetRestartPolicy(u)
  BY <1>2, <1>3 DEF Start, Stop, SetRestartPolicy, FoundMissing, PodmanFails
<1>4. CASE RestartStop(u) \/ RestartStart(u)
  BY <1>2, <1>4 DEF RestartStop, RestartStart, FoundMissing, Abort
<1>5. CASE RemoveContainer(u) \/ RemoveEntry(u)
  BY <1>5 DEF RemoveContainer, RemovalFailed, RemoveEntry, Delete, Abort
<1>6. CASE CreateEntry(u)
  BY <1>6 DEF CreateEntry
<1>7. CASE CreateContainer(u)
  BY <1>7 DEF CreateContainer, Delete
<1>8. CASE CreateStart(u)
  BY <1>8 DEF CreateStart
<1>9. ASSUME NEW saved \in BOOLEAN, CreateSaved(u, saved) \/ SaveAndFinish(u, saved)
      PROVE  instances' = instances \/ (pc[u] \in Locked /\ OnlyOwn(u) /\ pc'[u] # pc[u])
  BY <1>9 DEF CreateSaved, SaveAndFinish, Delete
<1>. QED
  BY <1>1, <1>3, <1>4, <1>5, <1>6, <1>7, <1>8, <1>9 DEF Transition, Creation

LEMMA StepIsolated ==
    ASSUME IInv, NEW t \in Threads, NEW u \in Threads, Step(u),
           pc[t] \in Locked \cap Bracketed, phase' = phase
    PROVE  instances'[target[t]] = instances[target[t]] \/ pc'[t] # pc[t]
<1>1. target[t] \in Ids /\ lock[target[t]] = t /\ lock[target[t]] # None
  BY ManagerAssumption DEF IInv, LocksHeld
<1>2. CASE \/ Acquire(u) \/ Refuse(u) \/ Transition(u) \/ Creation(u)
           \/ \E saved \in BOOLEAN : CreateSaved(u, saved) \/ SaveAndFinish(u, saved)
  <2>1. CASE u = t
    BY <1>2, <2>1, RequestWritesOwn
  <2>2. CASE u # t
    <3>1. pc[u] \in Locked => target[u] # target[t]
      BY <1>1, <2>2 DEF IInv, LocksHeld
    <3>. QED
      BY <1>1, <1>2, <3>1, RequestWritesOwn DEF OnlyOwn
  <2>. QED
    BY <2>1, <2>2
<1>3. CASE Commit(u)
  <2>1. inflight > 0
    BY InsideCounts DEF IInv
  <2>. QED
    BY <1>3, <2>1 DEF Commit, Overtaken
<1>4. CASE Load(u) \/ ListManaged(u) \/ Discard(u) \/ ListFails(u)
  BY <1>4 DEF Load, ListManaged, Discard, ListFails
<1>5. CASE Restoration(u)
  BY <1>5 DEF Restoration, TakeCandidates, RestoreNext, RestoreDone
<1>6. CASE SuspendStop(u)
  <2>1. PICK i \in Ids :
           lock[i] = None /\ \E new : IfKnown(i, new) \/ UNCHANGED instances
    BY <1>6 DEF SuspendStop
  <2>2. i # target[t]
    BY <1>1, <2>1
  <2>. QED
    BY <1>1, <2>1, <2>2 DEF IfKnown, IInv, TypeOK, TypeWorld, InstanceMap
<1>7. CASE SuspendBegin(u) \/ SuspendDone(u)
  BY <1>7 DEF SuspendBegin, SuspendDone
<1>8. CASE Quit(u)
  BY <1>8 DEF Quit, Down, IInv, DownIdle
<1>9. CASE Snapshot(u)
  BY <1>9 DEF Snapshot
<1>10. CASE \E saved \in BOOLEAN : SaveReconciled(u, saved) \/ SaveSuspended(u, saved)
  BY <1>10 DEF SaveReconciled, SaveSuspended
<1>. QED
  BY <1>2, <1>3, <1>4, <1>5, <1>6, <1>7, <1>8, <1>9, <1>10
     DEF Step, Pass, Suspension, Saving

LEMMA NextIsolated ==
    ASSUME IInv, Next, NEW t \in Threads, pc[t] \in Locked \cap Bracketed,
           phase' = phase
    PROVE  instances'[target[t]] = instances[target[t]] \/ pc'[t] # pc[t]
<1>1. CASE \E u \in Threads : Step(u)
  BY <1>1, StepIsolated
<1>2. CASE Launch \/ Tick \/ \E c \in Clients, o \in Ops, i \in Ids : Request(c, o, i)
  BY <1>2 DEF Launch, Tick, Request
<1>3. CASE BootFails \/ Crash
  BY <1>3 DEF BootFails, Crash, Down
<1>4. CASE FileMovedAside \/ \E i \in Ids : ContainerExits(i) \/ ContainerRemoved(i)
  BY <1>4 DEF FileMovedAside, ContainerExits, ContainerRemoved, External
<1>. QED
  BY <1>1, <1>2, <1>3, <1>4 DEF Next, Environment

(* From the moment a request is inside its bracket until it ends, only its *)
(* own steps change its entry in the map: no other request, no shutdown    *)
(* and no reconcile pass does, however many of them there are.             *)
THEOREM RequestsIsolated == Spec => Isolation
<1>1. IInv /\ [Next]_vars =>
         [\A t \in Threads :
             /\ pc[t] \in Locked \cap Bracketed
             /\ instances'[target[t]] # instances[target[t]]
             /\ phase' = phase
             => pc'[t] # pc[t]]_vars
  BY NextIsolated
<1>. QED
  BY <1>1, InductiveInvariant, PTL DEF Spec, Isolation

-----------------------------------------------------------------------------
(* Mutexes                                                                 *)

(* A thread moves on with what it has.                                     *)
LEMMA MovesWithLock ==
    ASSUME IInv, NobodyHoldsAndWaits, NEW t \in Threads, NEW l, Goto(t, l),
           UNCHANGED <<lock, target>>, pc[t] \in Locked => l \in Locked
    PROVE  NobodyHoldsAndWaits'
BY DEF NobodyHoldsAndWaits, IInv, TypeOK, TypeControl, Goto

(* A request that ends gives back the one mutex it has, or has none.       *)
LEMMA GivesBack ==
    ASSUME IInv, NobodyHoldsAndWaits, NEW t \in Threads, Finish(t),
           pc[t] \in Locked \/ (pc[t] = "wait" /\ lock[target[t]] = None)
    PROVE  NobodyHoldsAndWaits'
<1>1. lock' = [lock EXCEPT ![target[t]] = None] BY DEF Finish, Unlock
<1>2. \A u \in Threads \ {t} : pc'[u] = pc[u] /\ target'[u] = target[u]
  BY DEF Finish, Goto, IInv, TypeOK, TypeControl
<1>3. \A i \in Ids : lock'[i] # None => lock'[i] = lock[i] /\ lock[i] # t
  BY <1>1 DEF NobodyHoldsAndWaits, IInv, TypeOK, TypeControl, Locked
<1>. QED
  BY <1>2, <1>3 DEF NobodyHoldsAndWaits, IInv, TypeOK, TypeControl

(* A request on its way: it takes its mutex when it has none, and keeps it *)
(* until it ends.                                                          *)
LEMMA RequestHolds ==
    ASSUME IInv, NobodyHoldsAndWaits, NEW t \in Threads,
           \/ Acquire(t) \/ Refuse(t) \/ Transition(t) \/ Creation(t)
           \/ \E saved \in BOOLEAN : CreateSaved(t, saved) \/ SaveAndFinish(t, saved)
    PROVE  NobodyHoldsAndWaits'
<1> USE DEF Locked, locals
<1>1. CASE Acquire(t)
  BY <1>1 DEF Acquire, Goto, NobodyHoldsAndWaits, IInv, TypeOK, TypeControl
<1>2. ASSUME Abort(t), pc[t] \in Locked \/ (pc[t] = "wait" /\ lock[target[t]] = None)
      PROVE  NobodyHoldsAndWaits'
  BY <1>2, GivesBack DEF Abort
<1>3. CASE Refuse(t) \/ CreateAbandon(t)
  BY <1>2, <1>3 DEF Refuse, CreateAbandon
<1>4. CASE Begin(t)
  BY <1>4, MovesWithLock DEF Begin
<1>5. ASSUME NEW i, NEW hits, Transit(t, i, hits) PROVE NobodyHoldsAndWaits'
  BY <1>5, MovesWithLock DEF Transit
<1>6. CASE Start(t) \/ Stop(t) \/ SetRestartPolicy(t)
  BY <1>5, <1>6, MovesWithLock
     DEF Start, Stop, SetRestartPolicy, FoundMissing, PodmanFails
<1>7. CASE RestartStop(t) \/ RestartStart(t)
  BY <1>2, <1>5, <1>7, MovesWithLock DEF RestartStop, RestartStart, FoundMissing
<1>8. CASE RemoveContainer(t) \/ RemoveEntry(t)
  BY <1>2, <1>8, MovesWithLock DEF RemoveContainer, RemovalFailed, RemoveEntry
<1>9. CASE CreateEntry(t)
  BY <1>9, MovesWithLock DEF CreateEntry
<1>10. CASE CreateContainer(t)
  <2>1. PICK l \in Locked : Goto(t, l) BY <1>10 DEF CreateContainer
  <2>. QED
    BY <1>10, <2>1, MovesWithLock DEF CreateContainer
<1>11. CASE CreateStart(t)
  BY <1>11, MovesWithLock DEF CreateStart
<1>12. ASSUME NEW saved \in BOOLEAN, CreateSaved(t, saved) PROVE NobodyHoldsAndWaits'
  <2>1. PICK l \in Locked : Goto(t, l) BY <1>12 DEF CreateSaved
  <2>. QED
    BY <1>12, <2>1, MovesWithLock DEF CreateSaved
<1>13. ASSUME NEW saved \in BOOLEAN, SaveAndFinish(t, saved) PROVE NobodyHoldsAndWaits'
  BY <1>13, GivesBack DEF SaveAndFinish
<1>. QED
  BY <1>1, <1>3, <1>4, <1>6, <1>7, <1>8, <1>9, <1>10, <1>11, <1>12, <1>13
     DEF Transition, Creation

(* Passes, restores and shutdowns: one that restores takes one mutex at a  *)
(* time, a shutdown takes and gives back each within a step.               *)
LEMMA LoopHolds ==
    ASSUME IInv, NobodyHoldsAndWaits, NEW t \in Threads,
           \/ Pass(t) \/ Restoration(t) \/ Suspension(t) \/ Snapshot(t)
           \/ \E saved \in BOOLEAN : SaveReconciled(t, saved) \/ SaveSuspended(t, saved)
    PROVE  NobodyHoldsAndWaits'
<1> USE DEF Locked, locals
<1>1. ASSUME NEW ok, AfterPass(t, ok), pc[t] \notin Locked PROVE NobodyHoldsAndWaits'
  BY <1>1, MovesWithLock DEF AfterPass
<1>2. CASE Load(t) \/ ListManaged(t)
  BY <1>2, MovesWithLock DEF Load, ListManaged
<1>3. CASE Commit(t)
  <2>1. CASE Goto(t, "drifted") /\ UNCHANGED <<lock, target>>
    BY <1>3, <2>1, MovesWithLock DEF Commit
  <2>. QED
    BY <1>1, <1>3, <2>1 DEF Commit
<1>4. CASE Discard(t) \/ ListFails(t)
  BY <1>1, <1>4 DEF Discard, ListFails
<1>5. CASE TakeCandidates(t) \/ RestoreDone(t)
  BY <1>5, MovesWithLock DEF TakeCandidates, RestoreDone
<1>6. CASE RestoreNext(t)
  <2>1. CASE UNCHANGED <<lock, target, pc>>
    BY <2>1 DEF NobodyHoldsAndWaits
  <2>2. CASE \E i \in Ids : /\ lock' = [lock EXCEPT ![i] = t]
                            /\ target' = [target EXCEPT ![t] = i]
                            /\ Goto(t, "locked")
    BY <1>6, <2>2 DEF RestoreNext, Goto, NobodyHoldsAndWaits, IInv, TypeOK, TypeControl
  <2>. QED
    BY <1>6, <2>1, <2>2 DEF RestoreNext
<1>7. CASE SuspendBegin(t) \/ SuspendDone(t)
  BY <1>7, MovesWithLock DEF SuspendBegin, SuspendDone
<1>8. CASE SuspendStop(t) \/ Snapshot(t)
  <2>1. UNCHANGED <<lock, pc, target>> BY <1>8, Zenon DEF SuspendStop, Snapshot
  <2>. QED
    BY <2>1 DEF NobodyHoldsAndWaits
<1>9. CASE Quit(t)
  BY <1>9 DEF Quit, Down, NoMap, NobodyHoldsAndWaits
<1>10. ASSUME NEW saved \in BOOLEAN, SaveReconciled(t, saved) PROVE NobodyHoldsAndWaits'
  BY <1>1, <1>10 DEF SaveReconciled
<1>11. ASSUME NEW saved \in BOOLEAN, SaveSuspended(t, saved) PROVE NobodyHoldsAndWaits'
  BY <1>11, MovesWithLock DEF SaveSuspended
<1>. QED
  BY <1>2, <1>3, <1>4, <1>5, <1>6, <1>7, <1>8, <1>9, <1>10, <1>11
     DEF Pass, Restoration, Suspension

(* Requests that come in, the daemon that comes and goes, and the rest.    *)
LEMMA NextHolds ==
    ASSUME IInv, NobodyHoldsAndWaits, [Next]_vars
    PROVE  NobodyHoldsAndWaits'
<1> USE DEF Locked, locals
<1>1. ASSUME NEW t \in Threads, Step(t) PROVE NobodyHoldsAndWaits'
  BY <1>1, RequestHolds, LoopHolds DEF Step, Saving
<1>2. CASE Launch \/ Tick
  <2>1. Supervisor \in Threads /\ pc[Supervisor] \notin Locked
    BY <1>2 DEF Launch, Tick, Threads, IInv, DownIdle
  <2>. QED
    BY <1>2, <2>1, MovesWithLock DEF Launch, Tick
<1>3. CASE BootFails \/ Crash
  BY <1>3 DEF BootFails, Crash, Down, NoMap, NobodyHoldsAndWaits
<1>4. ASSUME NEW t \in Clients, NEW o \in Ops, NEW i \in Ids, Request(t, o, i)
      PROVE  NobodyHoldsAndWaits'
  BY <1>4 DEF Request, Goto, Threads, NobodyHoldsAndWaits, IInv, TypeOK, TypeControl
<1>5. CASE FileMovedAside \/ \E i \in Ids : ContainerExits(i) \/ ContainerRemoved(i)
  BY <1>5 DEF FileMovedAside, ContainerExits, ContainerRemoved, External, NobodyHoldsAndWaits
<1>6. CASE UNCHANGED vars
  BY <1>6 DEF vars, NobodyHoldsAndWaits
<1>. QED
  BY <1>1, <1>2, <1>3, <1>4, <1>5, <1>6 DEF Next, Environment

(* Whoever has a mutex waits for no other, for any number of ids, clients, *)
(* restores and shutdowns (manager.go:1031-1045): nobody waits in a circle.*)
THEOREM NoCircleOfWaits == Spec => []NobodyHoldsAndWaits
<1>1. Init => NobodyHoldsAndWaits
  BY DEF Init, NoMap, NobodyHoldsAndWaits
<1>. QED
  BY <1>1, NextHolds, InductiveInvariant, PTL DEF Spec

=============================================================================

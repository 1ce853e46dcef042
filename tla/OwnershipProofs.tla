--------------------------- MODULE OwnershipProofs ---------------------------
(***************************************************************************)
(* Manager implements Ownership, for every set of ids, clients, requests,  *)
(* policies, faults and events.  Each step of the manager is shown to be   *)
(* one of: a step of a thread that keeps to itself (Go), the taking, use   *)
(* or giving back of an entry, a mark, a survey, a fall, or a stutter.     *)
(* The proof rests on the inductive invariant of ManagerProofs.            *)
(***************************************************************************)
EXTENDS ManagerProofs

Changing == Locked \cap Bracketed

(* Thread t, and no other, moves on; only its own target may change.       *)
Moves(t, l) ==
    /\ Goto(t, l) /\ l \in Location /\ l # pc[t]
    /\ \A u \in Threads \ {t} : target'[u] = target[u]

-----------------------------------------------------------------------------
(* What a move does to the set of ids being changed                        *)

LEMMA MoveIsAlone ==
    ASSUME IInv, NEW t \in Threads, NEW l, Moves(t, l)
    PROVE  Owners!Alone(t)
BY DEF IInv, TypeOK, TypeControl, Moves, Goto, Owners!Alone

LEMMA WritingSame ==
    ASSUME IInv, NEW t \in Threads, NEW l, Moves(t, l),
           pc[t] \notin Changing, l \notin Changing
    PROVE  Writing' = Writing
<1>1. /\ pc'[t] \notin Changing
      /\ \A u \in Threads \ {t} : pc'[u] = pc[u] /\ target'[u] = target[u]
  BY DEF IInv, TypeOK, TypeControl, Moves, Goto
<1>2. \A u \in Threads, i \in Ids :
         (pc'[u] \in Changing /\ target'[u] = i) <=> (pc[u] \in Changing /\ target[u] = i)
  BY <1>1
<1>. QED
  BY <1>2 DEF Writing, Changing

LEMMA WritingAdds ==
    ASSUME IInv, NEW t \in Threads, NEW l, Moves(t, l), target' = target,
           target[t] \in Ids, l \in Changing
    PROVE  Writing' = Writing \cup {target[t]}
<1>1. /\ pc'[t] \in Changing
      /\ \A u \in Threads \ {t} : pc'[u] = pc[u]
  BY DEF IInv, TypeOK, TypeControl, Moves, Goto
<1>2. \A i \in Ids : (\E u \in Threads : pc'[u] \in Changing /\ target'[u] = i)
         <=> (\E u \in Threads : pc[u] \in Changing /\ target[u] = i) \/ i = target[t]
  BY <1>1
<1>. QED
  BY <1>2 DEF Writing, Changing

(* Nobody else works on the id given back: its mutex has one holder.       *)
LEMMA WritingDrops ==
    ASSUME IInv, NEW t \in Threads, NEW l, Moves(t, l), pc[t] \in Locked,
           l \notin Changing
    PROVE  Writing' = Writing \ {target[t]}
<1>1. /\ pc'[t] \notin Changing
      /\ \A u \in Threads \ {t} : pc'[u] = pc[u] /\ target'[u] = target[u]
  BY DEF IInv, TypeOK, TypeControl, Moves, Goto
<1>2. \A u \in Threads \ {t} : pc[u] \in Changing => target[u] # target[t]
  BY DEF IInv, LocksHeld, Changing
<1>3. \A i \in Ids : (\E u \in Threads : pc'[u] \in Changing /\ target'[u] = i)
         <=> (\E u \in Threads : pc[u] \in Changing /\ target[u] = i) /\ i # target[t]
  BY <1>1, <1>2
<1>. QED
  BY <1>3 DEF Writing, Changing

-----------------------------------------------------------------------------
(* The shapes of steps                                                     *)

LEMMA Goes ==
    ASSUME IInv, NEW t \in Threads, NEW l, Moves(t, l),
           pc[t] \notin Changing, l \notin Changing, UNCHANGED <<instances, lock>>
    PROVE  Owners!Go(t)
BY MoveIsAlone, WritingSame DEF Owners!Go

LEMMA Takes ==
    ASSUME IInv, NEW t \in Threads, NEW i \in Ids, NEW l, Moves(t, l),
           pc[t] \notin Changing, l \notin Changing, lock[i] = None,
           lock' = [lock EXCEPT ![i] = t], UNCHANGED instances
    PROVE  Owners!Take(t, i)
BY MoveIsAlone, WritingSame DEF Owners!Take

LEMMA Uses ==
    ASSUME IInv, IInv', NEW t \in Threads, NEW l, Moves(t, l),
           pc[t] \in Locked, l \in Changing, UNCHANGED <<lock, target>>,
           instances' = instances \/ OnlyOwn(t)
    PROVE  Owners!Use(t, target[t])
<1>1. target[t] \in Ids /\ lock[target[t]] = t
  BY DEF IInv, LocksHeld
<1>2. instances' \in [Ids -> Instance \cup {None}]
  BY DEF IInv, TypeOK, TypeWorld, InstanceMap
<1>3. \A j \in Ids \ {target[t]} : instances'[j] = instances[j]
  BY DEF OnlyOwn
<1>. QED
  BY <1>1, <1>2, <1>3, MoveIsAlone, WritingAdds DEF Owners!Use, Owners!Change

LEMMA Gives ==
    ASSUME IInv, NEW t \in Threads, Finish(t), pc[t] \in Locked, UNCHANGED instances
    PROVE  target[t] \in Ids /\ Owners!Give(t, target[t])
<1>1. target[t] \in Ids /\ lock[target[t]] = t
  BY DEF IInv, LocksHeld
<1>2. PICK l \in {"idle", "restoring"} : Goto(t, l)
  BY DEF Finish
<1>3. Moves(t, l) /\ l \notin Changing
  BY <1>2 DEF Moves, Finish, Changing, Locked, Location, IInv, TypeOK, TypeControl
<1>4. lock' = [lock EXCEPT ![target[t]] = None]
  BY DEF Finish, Unlock
<1>. QED
  BY <1>1, <1>3, <1>4, MoveIsAlone, WritingDrops DEF Owners!Give

(* What a thread may do according to module Ownership.                     *)
Allowed(t) ==
    \/ Owners!Go(t) \/ Owners!Survey(t)
    \/ \E i \in Ids : Owners!Take(t, i) \/ Owners!Use(t, i) \/ Owners!Give(t, i)

LEMMA StillStutters ==
    ASSUME UNCHANGED <<instances, lock, pc, target>>
    PROVE  UNCHANGED Owners!vars
BY DEF Owners!vars, Writing

-----------------------------------------------------------------------------
(* Steps of requests                                                       *)

(* A step of a request that holds its mutex: it ends it early, or goes on  *)
(* inside the bracket.                                                     *)
Inner(t) ==
    /\ \E l \in Changing : Goto(t, l) /\ l # pc[t]
    /\ UNCHANGED <<lock, target>>

LEMMA RequestShape ==
    ASSUME NEW t \in Threads,
           \/ Transition(t) \/ Creation(t)
           \/ \E saved \in BOOLEAN : CreateSaved(t, saved)
    PROVE  pc[t] \in Locked /\ (Abort(t) \/ Inner(t))
<1> USE DEF Locked, Bracketed, Changing, Inner
<1>1. ASSUME NEW i, NEW hits, Transit(t, i, hits), pc[t] \in {"begun", "halfway"}
      PROVE  Inner(t)
  BY <1>1 DEF Transit
<1>2. CASE Begin(t)
  BY <1>2 DEF Begin, locals
<1>3. CASE Start(t) \/ Stop(t) \/ SetRestartPolicy(t)
  BY <1>1, <1>3 DEF Start, Stop, SetRestartPolicy, FoundMissing, PodmanFails
<1>4. CASE RestartStop(t) \/ RestartStart(t)
  BY <1>1, <1>4 DEF RestartStop, RestartStart, FoundMissing, locals
<1>5. CASE RemoveContainer(t) \/ RemoveEntry(t)
  BY <1>5 DEF RemoveContainer, RemovalFailed, RemoveEntry, locals
<1>6. CASE CreateAbandon(t) \/ CreateEntry(t)
  BY <1>6 DEF CreateAbandon, CreateEntry, locals
<1>7. CASE CreateContainer(t) \/ CreateStart(t)
  BY <1>7 DEF CreateContainer, CreateStart
<1>8. CASE \E saved \in BOOLEAN : CreateSaved(t, saved)
  BY <1>8 DEF CreateSaved
<1>. QED
  BY <1>2, <1>3, <1>4, <1>5, <1>6, <1>7, <1>8 DEF Transition, Creation

LEMMA RequestAllowed ==
    ASSUME IInv, IInv', NEW t \in Threads,
           \/ Transition(t) \/ Creation(t)
           \/ \E saved \in BOOLEAN : CreateSaved(t, saved)
    PROVE  Allowed(t)
<1>1. pc[t] \in Locked /\ (Abort(t) \/ Inner(t))
  BY RequestShape
<1>2. CASE Abort(t)
  BY <1>1, <1>2, Gives DEF Abort, Allowed
<1>3. CASE Inner(t)
  <2>1. PICK l \in Changing : Goto(t, l) /\ l # pc[t]
    BY <1>3 DEF Inner
  <2>2. Moves(t, l) /\ UNCHANGED <<lock, target>>
    BY <1>3, <2>1 DEF Inner, Moves, Changing, Locked, Location
  <2>3. instances' = instances \/ OnlyOwn(t)
    BY RequestWritesOwn
  <2>4. target[t] \in Ids
    BY <1>1 DEF IInv, LocksHeld
  <2>. QED
    BY <1>1, <2>1, <2>2, <2>3, <2>4, Uses DEF Allowed
<1>. QED
  BY <1>1, <1>2, <1>3

LEMMA AcquireAllowed ==
    ASSUME IInv, NEW t \in Threads, Acquire(t)
    PROVE  Allowed(t)
<1>1. PICK l \in {"locked", "pulling"} : Goto(t, l)
  BY DEF Acquire
<1>2. Moves(t, l) /\ pc[t] \notin Changing /\ l \notin Changing
  BY <1>1 DEF Acquire, Moves, Changing, Locked, Bracketed, Location
<1>3. target[t] \in Ids
  BY DEF Acquire, IInv, LocksHeld
<1>. QED
  BY <1>2, <1>3, Takes DEF Acquire, Allowed

(* What was refused held no mutex, and gives none back.                    *)
LEMMA RefuseAllowed ==
    ASSUME IInv, NEW t \in Threads, Refuse(t)
    PROVE  Allowed(t)
<1>1. pc[t] = "wait" /\ lock[target[t]] = None /\ Finish(t) /\ instances' = instances
  BY DEF Refuse, Abort
<1>2. PICK l \in {"idle", "restoring"} : Goto(t, l)
  BY <1>1 DEF Finish
<1>3. Moves(t, l) /\ pc[t] \notin Changing /\ l \notin Changing
  BY <1>1, <1>2 DEF Moves, Finish, Changing, Locked, Location, IInv, TypeOK, TypeControl
<1>4. lock' = lock
  BY <1>1 DEF Finish, Unlock, IInv, TypeOK, TypeControl
<1>. QED
  BY <1>1, <1>3, <1>4, Goes DEF Allowed

LEMMA SaveAndFinishAllowed ==
    ASSUME IInv, NEW t \in Threads, NEW saved \in BOOLEAN, SaveAndFinish(t, saved)
    PROVE  Allowed(t)
BY Gives DEF SaveAndFinish, Locked, Allowed

-----------------------------------------------------------------------------
(* Steps of passes, restores and shutdowns                                 *)

LEMMA CommitAllowed ==
    ASSUME IInv, IInv', NEW t \in Threads, Commit(t)
    PROVE  Allowed(t)
<1>1. PICK l \in {"drifted", "suspend", "restore", "idle"} : Goto(t, l)
  BY DEF Commit, AfterPass
<1>2. UNCHANGED <<lock, target>>
  BY DEF Commit, AfterPass
<1>3. Moves(t, l) /\ pc[t] \notin Changing /\ l \notin Changing
  BY <1>1, <1>2 DEF Commit, Moves, Changing, Locked, Location
<1>4. Writing = {}
  BY InsideCounts DEF Commit, Overtaken, Writing, IInv, TypeOK, TypeControl
<1>5. instances' \in [Ids -> Instance \cup {None}]
  BY DEF IInv, TypeOK, TypeWorld, InstanceMap
<1>. QED
  BY <1>2, <1>3, <1>4, <1>5, MoveIsAlone, WritingSame DEF Owners!Survey, Allowed

LEMMA PassAllowed ==
    ASSUME IInv, NEW t \in Threads,
           \/ Load(t) \/ ListManaged(t) \/ Discard(t) \/ ListFails(t)
           \/ TakeCandidates(t) \/ RestoreDone(t)
           \/ SuspendBegin(t) \/ SuspendDone(t)
           \/ \E saved \in BOOLEAN : SaveReconciled(t, saved) \/ SaveSuspended(t, saved)
    PROVE  Allowed(t)
<1>1. /\ pc[t] \notin Changing
      /\ \E l \in Location \ Changing : Goto(t, l) /\ l # pc[t]
      /\ UNCHANGED <<instances, lock, target>>
  <2> USE DEF Changing, Locked, Location
  <2>1. CASE Load(t) \/ ListManaged(t)
    BY <2>1 DEF Load, ListManaged, locals
  <2>2. CASE Discard(t) \/ ListFails(t)
    BY <2>2 DEF Discard, ListFails, AfterPass
  <2>3. CASE TakeCandidates(t) \/ RestoreDone(t)
    BY <2>3 DEF TakeCandidates, RestoreDone
  <2>4. CASE SuspendBegin(t) \/ SuspendDone(t)
    BY <2>4 DEF SuspendBegin, SuspendDone, locals
  <2>5. CASE \E saved \in BOOLEAN : SaveReconciled(t, saved) \/ SaveSuspended(t, saved)
    BY <2>5 DEF SaveReconciled, SaveSuspended, AfterPass, locals
  <2>. QED
    BY <2>1, <2>2, <2>3, <2>4, <2>5
<1>2. PICK l \in Location \ Changing : Goto(t, l) /\ l # pc[t]
  BY <1>1
<1>3. Moves(t, l)
  BY <1>1, <1>2 DEF Moves
<1>. QED
  BY <1>1, <1>2, <1>3, Goes DEF Allowed

LEMMA RestoreNextAllowed ==
    ASSUME IInv, NEW t \in Threads, RestoreNext(t)
    PROVE  Allowed(t) \/ UNCHANGED Owners!vars
<1>1. pc[t] = "restoring" /\ instances' = instances
  BY DEF RestoreNext
<1>2. CASE UNCHANGED <<lock, target, pc>>
  BY <1>1, <1>2, StillStutters
<1>3. CASE ~UNCHANGED <<lock, target, pc>>
  <2>1. PICK i \in Ids : /\ lock[i] = None
                         /\ lock' = [lock EXCEPT ![i] = t]
                         /\ target' = [target EXCEPT ![t] = i]
                         /\ Goto(t, "locked")
    BY <1>3 DEF RestoreNext
  <2>2. Moves(t, "locked") /\ pc[t] \notin Changing /\ "locked" \notin Changing
    BY <1>1, <2>1 DEF Moves, Changing, Locked, Bracketed, Location, IInv, TypeOK,
                      TypeControl
  <2>. QED
    BY <1>1, <2>1, <2>2, Takes DEF Allowed
<1>. QED
  BY <1>2, <1>3

LEMMA SuspendStopMarks ==
    ASSUME IInv, IInv', NEW t \in Threads, SuspendStop(t)
    PROVE  \E i \in Ids : Owners!Mark(i)
<1>1. PICK i \in Ids :
         lock[i] = None /\ \E new : IfKnown(i, new) \/ UNCHANGED instances
  BY DEF SuspendStop
<1>2. instances' \in [Ids -> Instance \cup {None}]
  BY DEF IInv, TypeOK, TypeWorld, InstanceMap
<1>3. \A j \in Ids \ {i} : instances'[j] = instances[j]
  BY <1>1 DEF IfKnown, IInv, TypeOK, TypeWorld, InstanceMap
<1>4. UNCHANGED <<lock, pc, target>>
  BY DEF SuspendStop
<1>5. Writing' = Writing
  BY <1>4 DEF Writing
<1>. QED
  BY <1>1, <1>2, <1>3, <1>4, <1>5 DEF Owners!Mark, Owners!Change

LEMMA DownFalls ==
    ASSUME Down
    PROVE  Owners!Fall
<1>1. \A u \in Threads : pc'[u] = "idle"
  BY DEF Down
<1>2. Writing' = {}
  BY <1>1 DEF Writing, Locked
<1>. QED
  BY <1>2 DEF Down, NoMap, Owners!Fall, Owners!Vacant, Owners!Rest

(* The supervisor sets out, or a client sends a request.                   *)
LEMMA BeginsAllowed ==
    ASSUME IInv,
           \/ Launch \/ Tick
           \/ \E c \in Clients, o \in Ops, i \in Ids : Request(c, o, i)
    PROVE  \E t \in Threads : Allowed(t)
<1>1. PICK t \in Threads :
         /\ pc[t] = "idle"
         /\ \E l \in {"load", "restore", "wait"} : Goto(t, l)
         /\ UNCHANGED <<instances, lock>>
         /\ \A u \in Threads \ {t} : target'[u] = target[u]
  <2>1. CASE Launch \/ Tick
    BY <2>1 DEF Launch, Tick, Threads, IInv, DownIdle
  <2>2. ASSUME NEW c \in Clients, NEW o \in Ops, NEW i \in Ids, Request(c, o, i)
        PROVE  /\ pc[c] = "idle" /\ c \in Threads
               /\ \E l \in {"load", "restore", "wait"} : Goto(c, l)
               /\ UNCHANGED <<instances, lock>>
               /\ \A u \in Threads \ {c} : target'[u] = target[u]
    BY <2>2 DEF Request, Threads, IInv, TypeOK, TypeControl
  <2>. QED
    BY <2>1, <2>2
<1>2. PICK l \in {"load", "restore", "wait"} : Goto(t, l)
  BY <1>1
<1>3. Moves(t, l) /\ pc[t] \notin Changing /\ l \notin Changing
  BY <1>1, <1>2 DEF Moves, Changing, Locked, Location
<1>. QED
  BY <1>1, <1>3, Goes DEF Allowed

-----------------------------------------------------------------------------
(* The refinement                                                          *)

LEMMA StepRefines ==
    ASSUME IInv, IInv', NEW t \in Threads, Step(t)
    PROVE  Owners!Next \/ UNCHANGED Owners!vars
<1>1. CASE Acquire(t) \/ Refuse(t)
  BY <1>1, AcquireAllowed, RefuseAllowed DEF Owners!Next, Allowed
<1>2. CASE Transition(t) \/ Creation(t)
  BY <1>2, RequestAllowed DEF Owners!Next, Allowed
<1>3. CASE Pass(t)
  BY <1>3, PassAllowed, CommitAllowed DEF Pass, Owners!Next, Allowed
<1>4. CASE Restoration(t)
  BY <1>4, PassAllowed, RestoreNextAllowed DEF Restoration, Owners!Next, Allowed
<1>5. CASE Suspension(t)
  BY <1>5, PassAllowed, SuspendStopMarks, DownFalls
     DEF Suspension, Quit, Owners!Next, Allowed
<1>6. CASE Snapshot(t)
  BY <1>6, StillStutters DEF Snapshot, locals
<1>7. ASSUME NEW saved \in BOOLEAN, Saving(t, saved)
      PROVE  Owners!Next
  BY <1>7, RequestAllowed, SaveAndFinishAllowed, PassAllowed
     DEF Saving, Owners!Next, Allowed
<1>. QED
  BY <1>1, <1>2, <1>3, <1>4, <1>5, <1>6, <1>7 DEF Step

LEMMA NextRefines == IInv /\ IInv' /\ [Next]_vars => [Owners!Next]_Owners!vars
<1> SUFFICES ASSUME IInv, IInv', [Next]_vars
             PROVE  Owners!Next \/ UNCHANGED Owners!vars
  OBVIOUS
<1>1. CASE \E t \in Threads : Step(t)
  BY <1>1, StepRefines
<1>2. CASE Launch \/ Tick \/ \E c \in Clients, o \in Ops, i \in Ids : Request(c, o, i)
  BY <1>2, BeginsAllowed DEF Owners!Next, Allowed
<1>3. CASE BootFails \/ Crash
  BY <1>3, DownFalls DEF BootFails, Crash, Owners!Next
<1>4. CASE FileMovedAside \/ \E i \in Ids : ContainerExits(i) \/ ContainerRemoved(i)
  BY <1>4, StillStutters
     DEF FileMovedAside, ContainerExits, ContainerRemoved, External, locals
<1>5. CASE UNCHANGED vars
  BY <1>5, StillStutters DEF vars, locals
<1>. QED
  BY <1>1, <1>2, <1>3, <1>4, <1>5 DEF Next, Environment

LEMMA InitRefines == Init => Owners!Init
<1> SUFFICES ASSUME Init PROVE Owners!Init
  OBVIOUS
<1>1. Writing = {}
  BY DEF Init, Writing, Locked
<1>. QED
  BY <1>1 DEF Init, NoMap, Owners!Init, Owners!Vacant, Owners!Rest

(* The map of instances behaves as module Ownership says, for any number   *)
(* of ids and clients: entries change under the request that holds them, by *)
(* the mark of a shutdown, or all at once when none is half changed.       *)
THEOREM ManagerImplementsOwnership == Spec => ImplementsOwnership
<1>. QED
  BY InitRefines, NextRefines, InductiveInvariant, PTL
     DEF Spec, ImplementsOwnership, Owners!Spec

=============================================================================

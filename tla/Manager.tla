------------------------------- MODULE Manager -------------------------------
(***************************************************************************)
(* The daemon's manager: the single writer of instance state.  Requests    *)
(* run concurrently with each other and with the supervision loop.  Four   *)
(* mechanisms keep them apart and all are modelled: a mutex per instance   *)
(* id (lock), the count of mutations under way (inflight), the generation  *)
(* counter that lets a reconcile pass see it was overtaken (moved), and    *)
(* the mutex mu, which is what makes one step here atomic.                 *)
(*                                                                         *)
(* Definitions named Slip... are wrong variants of the definition that     *)
(* follows them. Nothing uses them: put in its place, each breaks one of   *)
(* the properties, which shows that the property depends on it.            *)
(*                                                                         *)
(* A thread runs one request.  A step is one mu section, one call to       *)
(* Podman, or one read or write of instances.toml; assignments between two *)
(* of these that no other thread can tell apart share a step.              *)
(*                                                                         *)
(* The generation counter is modelled by what is asked of it: "has it      *)
(* moved since this pass read it".  An *Instance held across steps is      *)
(* modelled by whether it is still the one in the map (attached).          *)
(***************************************************************************)
EXTENDS DbInstance, FiniteSets

CONSTANTS
    Ids,         \* instance ids; restore and suspend work in their order
    Clients,     \* threads serving requests
    Supervisor,  \* the thread that boots the daemon, then supervises
    Ops,         \* the requests the clients make
    Policies,    \* the restart policies they choose
    Faults,      \* what may fail: "podman" a call, "disk" a save, "crash" all
    Events       \* what happens behind the daemon: "exit", "rm", "forget"

Threads == Clients \cup {Supervisor}

Transitions == {"start", "stop", "restart", "policy", "remove"}
Creations   == {"create", "createStopped"}
Passes      == {"list", "restore", "suspend"}
Restorers   == {"restore", "supervise"}

ASSUME ManagerAssumption ==
    /\ Ids \subseteq Nat /\ IsFiniteSet(Ids)
    /\ IsFiniteSet(Clients) /\ Supervisor \notin Clients
    /\ None \notin Threads /\ None \notin Ids
    /\ Ops \subseteq Transitions \cup Creations \cup Passes
    /\ Policies \subseteq RestartPolicy
    /\ Faults \subseteq {"podman", "disk", "crash"}
    /\ Events \subseteq {"exit", "rm", "forget"}

VARIABLES
    container,  \* Podman's containers
    data,       \* ids whose data directory exists
    file,       \* instances.toml
    phase,      \* "down", "boot" (before Serve) or "up"
    instances,  \* Manager.instances
    lock,       \* Manager.locks: the holder of each id's mutex
    inflight,   \* Manager.inflight
    moved,      \* reconcile passes that Manager.gen has overtaken
    pc, op, target,
    failed,     \* threads whose request will answer with an error
    attached,   \* threads whose *Instance is the one in instances
    todo,       \* ids still to be restored or suspended by a thread
    view,       \* the file contents a thread has read or is about to write
    live,       \* the containers a reconcile pass has listed
    saving      \* threads between the two halves of save

(* History variables: they record what happened and guard nothing.         *)
VARIABLES
    asked,      \* what the recorded intent for an id may be
    windows,    \* the unprotected windows this behaviour has gone through
    older,      \* saves that were pending when a thread took its snapshot
    behind,     \* passes that read the file while a save was pending
    resume      \* ids the last shutdown stopped and the next boot owes

podman  == <<container, data>>
saves   == <<view, saving, older>>
passes  == <<live, behind>>
locals  == <<op, target, failed, attached, todo>>
history == <<asked, windows, older, behind, resume>>
vars    == <<podman, file, phase, instances, lock, inflight, moved, pc,
             locals, view, live, saving, history>>

-----------------------------------------------------------------------------

NoMap == [i \in Ids |-> None]

InstanceMap  == [Ids -> Instance \cup {None}]
ContainerMap == [Ids -> Container \cup {None}]

Location ==
    {"idle", "wait", "locked", "begun", "halfway", "removed", "pulling",
     "entered", "recorded", "created", "rollback", "dirty",
     "load", "loaded", "listed", "drifted",
     "restore", "restoring", "suspend", "suspending", "suspended", "quit"}

(* Where a thread holds the mutex of its target.                           *)
Locked == {"locked", "begun", "halfway", "removed", "pulling", "entered",
           "recorded", "created", "rollback", "dirty"}

(* Where a thread is inside the bracket of mutating().                     *)
Bracketed == (Locked \ {"locked", "pulling"}) \cup {"suspending", "suspended"}

(* Where a thread is about to save, or saving.                             *)
SavePoints == {"entered", "rollback", "dirty", "drifted", "suspended"}

Reconciling == {"loaded", "listed"}

(* A shutdown is under way once it has chosen what to stop.                *)
ShuttingDown == \E u \in Threads : pc[u] \in {"suspending", "suspended", "quit"}

Init ==
    /\ container = NoMap /\ data = {} /\ file = NoMap /\ phase = "down"
    /\ instances = NoMap /\ lock = NoMap /\ inflight = 0 /\ moved = {}
    /\ pc = [t \in Threads |-> "idle"]
    /\ op = [t \in Threads |-> None] /\ target = [t \in Threads |-> None]
    /\ failed = {} /\ attached = {} /\ todo = [t \in Threads |-> {}]
    /\ view = [t \in Threads |-> NoMap] /\ live = [t \in Threads |-> NoMap]
    /\ saving = {}
    /\ asked = [i \in Ids |-> {"gone"}] /\ windows = {}
    /\ older = [t \in Threads |-> {}] /\ behind = {} /\ resume = {}

-----------------------------------------------------------------------------
(* Shared steps                                                            *)

Goto(t, l) == pc' = [pc EXCEPT ![t] = l]

Fail(t) == failed' = failed \cup {t}

(* gen++: every pass that has read gen and not committed is overtaken.     *)
Bump == moved' = moved \cup {u \in Threads : pc[u] \in Reconciling}

SlipUncounted == Bump /\ UNCHANGED inflight

(* The start of mutating().                                                *)
Bracket == inflight' = inflight + 1 /\ Bump

(* A write through the *Instance: lost if the map holds another by now.    *)
Mutate(t, i) ==
    instances' = IF t \in attached
                 THEN [instances EXCEPT ![target[t]] = i] ELSE instances

Delete(i) == instances' = [instances EXCEPT ![i] = None]

(* Podman's part of a stop: the engine may exit cleanly or not.            *)
StopContainer(i) ==
    \E e \in ExitCode :
        /\ container[i].state = "stopped" => e = container[i].exit
        /\ container' = [container EXCEPT ![i].state = "stopped", ![i].exit = e]

StartContainer(i) ==
    container' = [container EXCEPT ![i].state = "running", ![i].exit = 0]

-----------------------------------------------------------------------------
(* History: what the records may say, and which window was gone through    *)

(* The ways past the four mechanisms that the code leaves open: a write    *)
(* through an *Instance no longer in the map, a pass that read the file    *)
(* while a save was pending, a save older than one already made, a restore *)
(* of what is no longer to be restored, a start during the shutdown, and   *)
(* instances.toml moved aside.                                             *)
Window == {"detached", "load", "reorder", "restore", "quit", "forget"}

Recorded(i) == IF i = None THEN "gone" ELSE i.desired

(* The intent a request leaves behind when it succeeds.                    *)
Intent(o) == CASE o \in {"start", "restart", "create"} -> "running"
               [] o \in {"stop", "createStopped"}      -> "stopped"
               [] o = "remove"                         -> "gone"

Intentional == Ops \ {"policy", "list", "restore", "suspend"}

(* From the moment a request takes effect until it answers, the record may *)
(* hold the old intent or the new one; after an error, either for good.    *)
Attempt(t) ==
    asked' = IF op[t] \in Intentional
             THEN [asked EXCEPT ![target[t]] = @ \cup {Intent(op[t])}]
             ELSE asked

Settle(t, intent) == asked' = [asked EXCEPT ![target[t]] = {intent}]

Through(w) == windows' = windows \cup w

DetachedWrite(t) == IF t \in attached THEN {} ELSE {"detached"}
LateStart        == IF ShuttingDown THEN {"quit"} ELSE {}
StaleRestore(t)  ==
    IF /\ op[t] \in Restorers
       /\ \/ instances[target[t]] = None
          \/ ~ShouldAutoStart(instances[target[t]])
    THEN {"restore"} ELSE {}

(* A request on an id, or a failure to start it, settles what the last     *)
(* shutdown owes it.                                                       *)
Discharge(i) == resume' = resume \ {i}

-----------------------------------------------------------------------------
(* Saving                                                                  *)

SlipSilentSave == UNCHANGED moved

(* A save counts as a change of state: what it saves was changed before.   *)
SaveBump == Bump

(* First half of save: copy the map and bump gen, under mu.                *)
Snapshot(t) ==
    /\ pc[t] \in SavePoints /\ t \notin saving
    /\ view' = [view EXCEPT ![t] = instances]
    /\ saving' = saving \cup {t}
    /\ older' = [older EXCEPT ![t] = saving]
    /\ SaveBump
    /\ UNCHANGED <<podman, file, phase, instances, lock, inflight, pc, locals,
                   passes, asked, windows, resume>>

(* Second half: replace the file, outside mu. The rename is atomic, so a   *)
(* failed save leaves the old file.                                        *)
Write(t, saved) ==
    /\ t \in saving
    /\ saved \/ "disk" \in Faults
    /\ file' = IF saved THEN view[t] ELSE file
    /\ saving' = saving \ {t}
    /\ view' = [view EXCEPT ![t] = NoMap]
    /\ older' = [u \in Threads |-> IF u = t THEN {} ELSE older[u] \ {t}]
    /\ Through(IF saved /\ older[t] # {} THEN {"reorder"} ELSE {})
    /\ UNCHANGED <<podman, phase, passes>>

SlipKeepLock(t) == UNCHANGED lock

Unlock(t) == lock' = [lock EXCEPT ![target[t]] = None]

SlipEarlyReturn(t) ==
    inflight' = IF pc[t] \in {"dirty", "rollback"} THEN inflight - 1 ELSE inflight

(* The deferred end of mutating(), run on every way out of the bracket.    *)
Unbracket(t) ==
    inflight' = IF pc[t] \in Bracketed THEN inflight - 1 ELSE inflight

(* A request ends: the deferred calls close the bracket and unlock. A      *)
(* restoring thread goes on to its next candidate.                         *)
Finish(t) ==
    /\ Unlock(t)
    /\ Unbracket(t)
    /\ attached' = attached \ {t}
    /\ failed' = failed \ {t}
    /\ target' = [target EXCEPT ![t] = None]
    /\ IF op[t] \in Restorers
       THEN Goto(t, "restoring") /\ UNCHANGED op
       ELSE Goto(t, "idle") /\ op' = [op EXCEPT ![t] = None]
    /\ UNCHANGED todo

(* It ends early, with an error and without a save.                        *)
Abort(t) ==
    /\ Finish(t)
    /\ UNCHANGED <<podman, file, phase, instances, moved, saves, passes, history>>

(* The save that ends a request, successful or not.                        *)
SaveAndFinish(t, saved) ==
    /\ pc[t] \in {"dirty", "rollback"}
    /\ Write(t, saved)
    /\ Finish(t)
    /\ IF saved /\ op[t] \in Intentional /\ (pc[t] = "rollback" \/ t \notin failed)
       THEN Settle(t, IF pc[t] = "rollback" THEN "gone" ELSE Intent(op[t]))
       ELSE UNCHANGED asked
    /\ UNCHANGED <<instances, moved, resume>>

-----------------------------------------------------------------------------
(* Requests and the lock                                                   *)

Request(t, o, i) ==
    /\ phase = "up" /\ pc[t] = "idle"
    /\ op' = [op EXCEPT ![t] = o]
    /\ IF o \in Passes
       THEN /\ Goto(t, IF o = "restore" THEN "restore" ELSE "load")
            /\ UNCHANGED target
       ELSE /\ Goto(t, "wait")
            /\ target' = [target EXCEPT ![t] = i]
    /\ UNCHANGED <<podman, file, phase, instances, lock, inflight, moved,
                   failed, attached, todo, saves, passes, history>>

(* Lock the id, then look it up: a transition needs the instance to exist, *)
(* a creation needs it not to.                                             *)
Acquire(t) ==
    /\ pc[t] = "wait" /\ lock[target[t]] = None
    /\ (op[t] \in Transitions) = (instances[target[t]] # None)
    /\ lock' = [lock EXCEPT ![target[t]] = t]
    /\ IF op[t] \in Transitions
       THEN attached' = attached \cup {t} /\ Goto(t, "locked")
       ELSE UNCHANGED attached /\ Goto(t, "pulling")
    /\ UNCHANGED <<podman, file, phase, instances, inflight, moved, op, target,
                   failed, todo, saves, passes, history>>

(* Not found, or exists already.                                           *)
Refuse(t) ==
    /\ pc[t] = "wait" /\ lock[target[t]] = None
    /\ (op[t] \in Transitions) # (instances[target[t]] # None)
    /\ Abort(t)

(* The bracket opens after the lookup, in a mu section of its own.         *)
Begin(t) ==
    /\ pc[t] = "locked"
    /\ Goto(t, "begun")
    /\ Bracket
    /\ UNCHANGED <<podman, file, phase, instances, lock, locals, saves, passes,
                   history>>

-----------------------------------------------------------------------------
(* Start, Stop, SetRestartPolicy                                           *)

(* A change made by a transition, and its way to the save.                 *)
Transit(t, i, hits) ==
    /\ Mutate(t, i)
    /\ Through(DetachedWrite(t) \cup hits)
    /\ Goto(t, "dirty")
    /\ UNCHANGED <<data, file, phase, lock, inflight, moved, op, target,
                   attached, todo, saves, passes, older, behind>>

(* The container turned out not to exist.                                  *)
FoundMissing(t) ==
    /\ container[target[t]] = None
    /\ Transit(t, [instances[target[t]] EXCEPT !.status = "missing"], {})
    /\ Fail(t)
    /\ Discharge(target[t])
    /\ UNCHANGED <<container, asked>>

(* Podman failed in another way: nothing changes, the save still happens.  *)
PodmanFails(t) ==
    /\ "podman" \in Faults /\ container[target[t]] # None
    /\ Fail(t)
    /\ Discharge(target[t])
    /\ Goto(t, "dirty")
    /\ UNCHANGED <<podman, file, phase, instances, lock, inflight, moved, op,
                   target, attached, todo, saves, passes, asked, windows>>

Start(t) ==
    /\ pc[t] = "begun" /\ op[t] \in {"start"} \cup Restorers
    /\ \/ /\ container[target[t]] # None
          /\ StartContainer(target[t])
          /\ Transit(t, [instances[target[t]] EXCEPT
                            !.status = "running", !.desired = "running",
                            !.exit = 0, !.suspended = FALSE],
                     StaleRestore(t) \cup LateStart)
          /\ Attempt(t)
          /\ UNCHANGED <<failed, resume>>
       \/ FoundMissing(t)
       \/ PodmanFails(t)

Stop(t) ==
    /\ pc[t] = "begun" /\ op[t] = "stop"
    /\ \/ /\ container[target[t]] # None
          /\ StopContainer(target[t])
          /\ Transit(t, [instances[target[t]] EXCEPT
                            !.status = "stopped", !.desired = "stopped",
                            !.suspended = FALSE], {})
          /\ Attempt(t)
          /\ Discharge(target[t])
          /\ UNCHANGED failed
       \/ FoundMissing(t)
       \/ PodmanFails(t)

SetRestartPolicy(t) ==
    /\ pc[t] = "begun" /\ op[t] = "policy"
    /\ \E p \in Policies :
          Transit(t, [instances[target[t]] EXCEPT !.restart = p], {})
    /\ UNCHANGED <<container, failed, asked, resume>>

-----------------------------------------------------------------------------
(* RestartInstance: two calls to Podman under one lock                     *)

RestartStop(t) ==
    /\ pc[t] = "begun" /\ op[t] = "restart"
    /\ \/ /\ container[target[t]] # None
          /\ StopContainer(target[t])
          /\ Goto(t, "halfway")
          /\ UNCHANGED <<data, file, phase, instances, lock, inflight, moved,
                         locals, saves, passes, history>>
       \/ FoundMissing(t)
       \/ /\ "podman" \in Faults /\ container[target[t]] # None
          /\ Abort(t)

RestartStart(t) ==
    /\ pc[t] = "halfway"
    /\ Discharge(target[t])
    /\ \/ /\ container[target[t]] # None
          /\ StartContainer(target[t])
          /\ Transit(t, [instances[target[t]] EXCEPT
                            !.status = "running", !.desired = "running",
                            !.exit = 0, !.suspended = FALSE], LateStart)
          /\ Attempt(t)
          /\ UNCHANGED failed
       \/ /\ container[target[t]] = None \/ "podman" \in Faults
          /\ Transit(t, [instances[target[t]] EXCEPT !.status = "stopped"], {})
          /\ Fail(t)
          /\ UNCHANGED <<container, asked>>

-----------------------------------------------------------------------------
(* Remove                                                                  *)

SlipIgnoreError(t) ==
    /\ Goto(t, "removed")
    /\ UNCHANGED <<podman, file, phase, instances, lock, inflight, moved, locals,
                   saves, passes, history>>

(* A container that could not be removed keeps its entry and its data.     *)
RemovalFailed(t) == Abort(t)

(* Without --force Podman refuses a running container. A container already *)
(* gone is not an error.                                                   *)
RemoveContainer(t) ==
    /\ pc[t] = "begun" /\ op[t] = "remove"
    /\ \/ /\ container' = [container EXCEPT ![target[t]] = None]
          /\ Goto(t, "removed")
          /\ Discharge(target[t])
          /\ UNCHANGED <<data, file, phase, instances, lock, inflight, moved,
                         locals, saves, passes, asked, windows, older, behind>>
       \/ /\ container[target[t]] # None
          /\ container[target[t]].state = "running" \/ "podman" \in Faults
          /\ RemovalFailed(t)

(* The data goes only after the container, and the entry only after the    *)
(* data: a wipe that fails keeps the entry.                                *)
RemoveEntry(t) ==
    /\ pc[t] = "removed"
    /\ \/ /\ data' \in {data, data \ {target[t]}}
          /\ Delete(target[t])
          /\ Goto(t, "dirty")
          /\ Attempt(t)
          /\ UNCHANGED <<container, file, phase, lock, inflight, moved, locals,
                         saves, passes, windows, older, behind, resume>>
       \/ "podman" \in Faults /\ Abort(t)

-----------------------------------------------------------------------------
(* Create                                                                  *)

(* No image, or no port: nothing was recorded yet.                         *)
CreateAbandon(t) == pc[t] = "pulling" /\ "podman" \in Faults /\ Abort(t)

(* The entry is recorded as creating before anything is made. Whether it   *)
(* exists was asked when the lock was taken and is not asked again.        *)
CreateEntry(t) ==
    /\ pc[t] = "pulling"
    /\ Bracket
    /\ \E p \in Policies :
          instances' = [instances EXCEPT ![target[t]] =
              [status |-> "creating", desired |-> DesiredFor(op[t] = "create"),
               restart |-> p, suspended |-> FALSE, exit |-> 0]]
    /\ Goto(t, "entered")
    /\ Attempt(t)
    /\ UNCHANGED <<podman, file, phase, lock, locals, saves, passes, windows,
                   older, behind, resume>>

(* If the first save fails, the entry is dropped again.                    *)
CreateSaved(t, saved) ==
    /\ pc[t] = "entered"
    /\ Write(t, saved)
    /\ IF saved THEN Goto(t, "recorded") /\ UNCHANGED <<instances, failed>>
                ELSE Goto(t, "rollback") /\ Delete(target[t]) /\ Fail(t)
    /\ UNCHANGED <<lock, inflight, moved, op, target, attached, todo, asked,
                   behind, resume>>

(* The data directory, then the container. A name already in use, or any   *)
(* other failure, rolls the entry back.                                    *)
CreateContainer(t) ==
    /\ pc[t] = "recorded"
    /\ \/ /\ container[target[t]] = None
          /\ data' = data \cup {target[t]}
          /\ LET i == instances[target[t]] IN
                container' = [container EXCEPT ![target[t]] =
                    [state |-> "stopped", exit |-> 0,
                     restart |-> i.restart, desired |-> i.desired]]
          /\ instances' = [instances EXCEPT ![target[t]].status = "stopped"]
          /\ Goto(t, IF op[t] = "create" THEN "created" ELSE "dirty")
          /\ UNCHANGED failed
       \/ /\ container[target[t]] # None \/ "podman" \in Faults
          /\ data' \in {data, data \cup {target[t]}}
          /\ Delete(target[t])
          /\ Goto(t, "rollback")
          /\ Fail(t)
          /\ UNCHANGED container
    /\ UNCHANGED <<file, phase, lock, inflight, moved, op, target, attached,
                   todo, saves, passes, history>>

(* A container that does not start stays recorded, as stopped.             *)
CreateStart(t) ==
    /\ pc[t] = "created"
    /\ Goto(t, "dirty")
    /\ \/ /\ container[target[t]] # None
          /\ StartContainer(target[t])
          /\ instances' = [instances EXCEPT ![target[t]].status = "running"]
          /\ Through(LateStart)
          /\ UNCHANGED failed
       \/ /\ container[target[t]] = None \/ "podman" \in Faults
          /\ Fail(t)
          /\ UNCHANGED <<container, instances, windows>>
    /\ UNCHANGED <<data, file, phase, lock, inflight, moved, op, target,
                   attached, todo, saves, passes, asked, older, behind, resume>>

-----------------------------------------------------------------------------
(* Reconcile                                                               *)

(* Read gen, then the file.                                                *)
Load(t) ==
    /\ pc[t] = "load"
    /\ moved' = moved \ {t}
    /\ view' = [view EXCEPT ![t] = file]
    /\ behind' = IF saving # {} THEN behind \cup {t} ELSE behind
    /\ Goto(t, "loaded")
    /\ UNCHANGED <<podman, file, phase, instances, lock, inflight, locals, live,
                   saving, asked, windows, older, resume>>

ListManaged(t) ==
    /\ pc[t] = "loaded"
    /\ live' = [live EXCEPT ![t] = container]
    /\ Goto(t, "listed")
    /\ UNCHANGED <<podman, file, phase, instances, lock, inflight, moved,
                   locals, saves, behind, history>>

(* What the caller of Reconcile does next: a list answers, a supervision   *)
(* tick restores unless the pass failed, a shutdown proceeds either way.   *)
AfterPass(t, ok) ==
    /\ IF op[t] = "suspend" \/ (op[t] = "supervise" /\ ok)
       THEN /\ Goto(t, IF op[t] = "suspend" THEN "suspend" ELSE "restore")
            /\ UNCHANGED op
       ELSE Goto(t, "idle") /\ op' = [op EXCEPT ![t] = None]
    /\ UNCHANGED <<podman, phase, lock, inflight, target, failed, todo, asked,
                   resume>>

(* What a pass has read is dropped with it.                                *)
EndRead(t) ==
    /\ view' = [view EXCEPT ![t] = NoMap]
    /\ live' = [live EXCEPT ![t] = NoMap]
    /\ behind' = behind \ {t}
    /\ moved' = moved \ {t}
    /\ UNCHANGED <<file, saving, older>>

SlipGenOnly(t) == t \in moved

SlipCountOnly(t) == inflight > 0

(* Something changed since the pass began, or is changing now.             *)
Overtaken(t) == t \in moved \/ inflight > 0

(* Nothing happened since the pass began, and nothing is under way: its    *)
(* view replaces the map, entries and all, and drift is written back.      *)
Commit(t) ==
    /\ pc[t] = "listed" /\ ~Overtaken(t)
    /\ instances' = [i \in Ids |-> Reconciled(view[t][i], live[t][i])]
    /\ attached' = {}
    /\ Through(IF t \in behind THEN {"load"} ELSE {})
    /\ EndRead(t)
    /\ IF \E i \in Ids : Drifted(view[t][i], live[t][i])
       THEN /\ Goto(t, "drifted")
            /\ UNCHANGED <<podman, phase, lock, inflight, op, target, failed,
                           todo, asked, resume>>
       ELSE AfterPass(t, TRUE)

(* Overtaken. The caller is told nothing of it.                            *)
Discard(t) ==
    /\ pc[t] = "listed" /\ Overtaken(t)
    /\ EndRead(t)
    /\ AfterPass(t, TRUE)
    /\ UNCHANGED <<instances, attached, windows>>

(* Outside the boot, whose failures end the daemon: see BootFails.         *)
ListFails(t) ==
    /\ pc[t] = "loaded" /\ "podman" \in Faults /\ phase = "up"
    /\ EndRead(t)
    /\ AfterPass(t, FALSE)
    /\ UNCHANGED <<instances, attached, windows>>

SaveReconciled(t, saved) ==
    /\ pc[t] = "drifted" /\ (saved \/ phase = "up")
    /\ Write(t, saved)
    /\ AfterPass(t, saved)
    /\ UNCHANGED <<instances, moved, attached, behind>>

-----------------------------------------------------------------------------
(* Restore: Start, for every candidate of a copy taken at the beginning    *)

TakeCandidates(t) ==
    /\ pc[t] = "restore"
    /\ todo' = [todo EXCEPT ![t] =
          {i \in Ids : /\ instances[i] # None
                       /\ instances[i].status \notin {"running", "missing"}
                       /\ ShouldAutoStart(instances[i])}]
    /\ Goto(t, "restoring")
    /\ UNCHANGED <<podman, file, phase, instances, lock, inflight, moved, op,
                   target, failed, attached, saves, passes, history>>

(* Both loops take the ids in sorted order, and wait for each one's mutex. *)
Turn(t, i) == i \in todo[t] /\ \A j \in todo[t] : i <= j

(* Lock and look up the next one; it may be gone by now.                   *)
RestoreNext(t) ==
    /\ pc[t] = "restoring"
    /\ \E i \in Ids :
          /\ Turn(t, i) /\ lock[i] = None
          /\ todo' = [todo EXCEPT ![t] = @ \ {i}]
          /\ IF instances[i] # None
             THEN /\ lock' = [lock EXCEPT ![i] = t]
                  /\ target' = [target EXCEPT ![t] = i]
                  /\ attached' = attached \cup {t}
                  /\ Goto(t, "locked")
                  /\ UNCHANGED resume
             ELSE /\ Discharge(i)
                  /\ UNCHANGED <<lock, target, attached, pc>>
    /\ UNCHANGED <<podman, file, phase, instances, inflight, moved, op, failed,
                   saves, passes, asked, windows, older, behind>>

(* At boot, the end of the restore is where the server starts listening.   *)
RestoreDone(t) ==
    /\ pc[t] = "restoring" /\ todo[t] = {}
    /\ Goto(t, "idle")
    /\ op' = [op EXCEPT ![t] = None]
    /\ IF phase = "boot" THEN phase' = "up" /\ resume' = {}
                         ELSE UNCHANGED <<phase, resume>>
    /\ UNCHANGED <<podman, file, instances, lock, inflight, moved, target,
                   failed, attached, todo, saves, passes, asked, windows, older,
                   behind>>

-----------------------------------------------------------------------------
(* Suspend and the end of the daemon                                       *)

SlipByPolicy ==
    {i \in Ids : /\ instances[i] # None /\ instances[i].status = "running"
                 /\ instances[i].restart # "no"}

RunningIds == {i \in Ids : instances[i] # None /\ instances[i].status = "running"}

SuspendBegin(t) ==
    /\ pc[t] = "suspend"
    /\ Bracket
    /\ todo' = [todo EXCEPT ![t] = RunningIds]
    /\ Goto(t, "suspending")
    /\ UNCHANGED <<podman, file, phase, instances, lock, op, target, failed,
                   attached, saves, passes, history>>

IfKnown(i, new) ==
    instances' = IF instances[i] # None
                 THEN [instances EXCEPT ![i] = new] ELSE instances

(* One id at a time, under its mutex, which is free again afterwards. The  *)
(* mark is kept in memory until the whole shutdown is saved.               *)
SuspendStop(t) ==
    /\ pc[t] = "suspending"
    /\ \E i \in Ids :
          /\ Turn(t, i) /\ lock[i] = None
          /\ todo' = [todo EXCEPT ![t] = @ \ {i}]
          /\ \/ /\ container[i] # None
                /\ StopContainer(i)
                /\ IfKnown(i, [instances[i] EXCEPT !.status = "stopped",
                                                  !.suspended = TRUE])
                /\ resume' = IF /\ instances[i] # None
                                /\ instances[i].desired = "running"
                             THEN resume \cup {i} ELSE resume
             \/ /\ container[i] = None
                /\ IfKnown(i, [instances[i] EXCEPT !.status = "missing"])
                /\ UNCHANGED <<container, resume>>
             \/ /\ container[i] # None /\ "podman" \in Faults
                /\ UNCHANGED <<container, instances, resume>>
    /\ UNCHANGED <<data, file, phase, lock, inflight, moved, pc, op, target,
                   failed, attached, saves, passes, asked, windows, older,
                   behind>>

SlipUnsaved(t) ==
    /\ pc[t] = "suspending" /\ todo[t] = {}
    /\ inflight' = inflight - 1
    /\ Goto(t, "quit")
    /\ UNCHANGED <<podman, file, phase, instances, lock, moved, locals, saves,
                   passes, history>>

SuspendDone(t) ==
    /\ pc[t] = "suspending" /\ todo[t] = {}
    /\ Goto(t, "suspended")
    /\ UNCHANGED <<podman, file, phase, instances, lock, inflight, moved,
                   locals, saves, passes, history>>

(* The reply is sent whether or not the marks were saved.                  *)
SaveSuspended(t, saved) ==
    /\ pc[t] = "suspended"
    /\ Write(t, saved)
    /\ inflight' = inflight - 1
    /\ Goto(t, "quit")
    /\ resume' = IF saved THEN resume ELSE {}
    /\ UNCHANGED <<instances, lock, moved, locals, asked, behind>>

(* The process ends: whatever was running in it stops where it is.         *)
Down ==
    /\ phase' = "down"
    /\ instances' = NoMap /\ lock' = NoMap /\ inflight' = 0 /\ moved' = {}
    /\ pc' = [t \in Threads |-> "idle"]
    /\ op' = [t \in Threads |-> None] /\ target' = [t \in Threads |-> None]
    /\ failed' = {} /\ attached' = {} /\ todo' = [t \in Threads |-> {}]
    /\ view' = [t \in Threads |-> NoMap] /\ live' = [t \in Threads |-> NoMap]
    /\ saving' = {} /\ older' = [t \in Threads |-> {}] /\ behind' = {}
    /\ UNCHANGED <<podman, file, asked, windows>>

(* The server's goroutines are not waited for.                             *)
Quit(t) == pc[t] = "quit" /\ Down /\ UNCHANGED resume

(* Killed, or terminated by a signal: the databases keep running. Only a   *)
(* shutdown that was seen through is owed a resume.                        *)
Crash ==
    /\ "crash" \in Faults /\ phase # "down"
    /\ Down
    /\ resume' = IF phase = "up" THEN {} ELSE resume

(* The first pass could not list, or could not save: exit status 1.        *)
BootFails ==
    /\ phase = "boot"
    /\ \/ pc[Supervisor] = "loaded" /\ "podman" \in Faults
       \/ Supervisor \in saving /\ pc[Supervisor] = "drifted" /\ "disk" \in Faults
    /\ Down
    /\ UNCHANGED resume

Launch ==
    /\ phase = "down"
    /\ phase' = "boot"
    /\ op' = [op EXCEPT ![Supervisor] = "supervise"]
    /\ Goto(Supervisor, "load")
    /\ UNCHANGED <<podman, file, instances, lock, inflight, moved, target,
                   failed, attached, todo, saves, passes, history>>

(* The supervision loop's ticker.                                          *)
Tick ==
    /\ phase = "up" /\ pc[Supervisor] = "idle"
    /\ op' = [op EXCEPT ![Supervisor] = "supervise"]
    /\ Goto(Supervisor, "load")
    /\ UNCHANGED <<podman, file, phase, instances, lock, inflight, moved,
                   target, failed, attached, todo, saves, passes, history>>

-----------------------------------------------------------------------------
(* Behind the daemon                                                       *)

External == UNCHANGED <<data, phase, instances, lock, inflight, moved, pc,
                        locals, saves, passes, asked, older, behind>>

(* An engine exits on its own.                                             *)
ContainerExits(i) ==
    /\ "exit" \in Events
    /\ container[i] # None /\ container[i].state = "running"
    /\ StopContainer(i)
    /\ Discharge(i)
    /\ External /\ UNCHANGED <<file, windows>>

(* podman rm -f                                                            *)
ContainerRemoved(i) ==
    /\ "rm" \in Events
    /\ container[i] # None
    /\ container' = [container EXCEPT ![i] = None]
    /\ Discharge(i)
    /\ External /\ UNCHANGED <<file, windows>>

(* The user moves instances.toml aside to start afresh.                    *)
FileMovedAside ==
    /\ "forget" \in Events
    /\ file # NoMap
    /\ file' = NoMap
    /\ Through({"forget"})
    /\ External /\ UNCHANGED <<container, resume>>

-----------------------------------------------------------------------------

Transition(t) ==
    \/ Begin(t) \/ Start(t) \/ Stop(t) \/ SetRestartPolicy(t)
    \/ RestartStop(t) \/ RestartStart(t)
    \/ RemoveContainer(t) \/ RemoveEntry(t)

Creation(t) ==
    \/ CreateAbandon(t) \/ CreateEntry(t) \/ CreateContainer(t) \/ CreateStart(t)

Pass(t) == Load(t) \/ ListManaged(t) \/ Commit(t) \/ Discard(t) \/ ListFails(t)

Restoration(t) == TakeCandidates(t) \/ RestoreNext(t) \/ RestoreDone(t)

Suspension(t) ==
    SuspendBegin(t) \/ SuspendStop(t) \/ SuspendDone(t) \/ Quit(t)

Saving(t, saved) ==
    \/ CreateSaved(t, saved) \/ SaveAndFinish(t, saved)
    \/ SaveReconciled(t, saved) \/ SaveSuspended(t, saved)

(* What a thread does once it has begun; the client only sends requests.   *)
Step(t) ==
    \/ Acquire(t) \/ Refuse(t)
    \/ Transition(t) \/ Creation(t) \/ Pass(t) \/ Restoration(t) \/ Suspension(t)
    \/ Snapshot(t)
    \/ \E saved \in BOOLEAN : Saving(t, saved)

Environment ==
    \/ \E t \in Clients, o \in Ops, i \in Ids : Request(t, o, i)
    \/ Crash
    \/ \E i \in Ids : ContainerExits(i) \/ ContainerRemoved(i)
    \/ FileMovedAside

Next ==
    \/ \E t \in Threads : Step(t)
    \/ Launch \/ Tick \/ BootFails
    \/ Environment

Spec == Init /\ [][Next]_vars

(* Goroutines are scheduled and calls return (WF); a goroutine waiting for *)
(* a sync.Mutex that keeps being released gets it (SF), as Go's mutex hands *)
(* over to starved waiters; the ticker ticks. Nobody has to send a request *)
(* or to stop sending them, nothing has to fail or to stop failing, and    *)
(* nobody has to launch the daemon.                                        *)
Fairness ==
    /\ \A t \in Threads : SF_vars(Step(t))
    /\ WF_vars(Tick)

FairSpec == Spec /\ Fairness

-----------------------------------------------------------------------------
(* Properties                                                              *)

TypeWorld ==
    /\ container \in ContainerMap /\ data \subseteq Ids
    /\ file \in InstanceMap /\ instances \in InstanceMap
    /\ view \in [Threads -> InstanceMap] /\ live \in [Threads -> ContainerMap]

TypeControl ==
    /\ phase \in {"down", "boot", "up"}
    /\ lock \in [Ids -> Threads \cup {None}]
    /\ inflight \in Nat
    /\ pc \in [Threads -> Location]
    /\ target \in [Threads -> Ids \cup {None}]

TypeLocal ==
    /\ op \in [Threads -> Ops \cup {"supervise", None}]
    /\ moved \subseteq Threads /\ saving \subseteq Threads
    /\ failed \subseteq Threads /\ attached \subseteq Threads
    /\ todo \in [Threads -> SUBSET Ids]

TypeHistory ==
    /\ asked \in [Ids -> SUBSET {"running", "stopped", "gone"}]
    /\ windows \subseteq Window
    /\ older \in [Threads -> SUBSET Threads]
    /\ behind \subseteq Threads /\ resume \subseteq Ids

TypeOK == TypeWorld /\ TypeControl /\ TypeLocal /\ TypeHistory

(* The bracket is balanced on every path, early returns and failures       *)
(* included: a count left high would discard every later reconcile pass.   *)
InflightExact == inflight = Cardinality({t \in Threads : pc[t] \in Bracketed})

(* Where a thread relies on its mutex, it has it: two requests for one id  *)
(* never overlap, and a request never works on an id it did not lock.      *)
LocksHeld ==
    \A t \in Threads :
        /\ pc[t] \in Locked => target[t] \in Ids /\ lock[target[t]] = t
        /\ pc[t] = "wait" => target[t] \in Ids

(* The entry a request works on is not taken from under it: it stays in    *)
(* the map as long as the request may write to it.                         *)
EntriesPresent ==
    \A t \in Threads :
        \/ pc[t] \in {"entered", "recorded", "created"}
        \/ pc[t] \in {"locked", "begun", "halfway"} /\ t \in attached
        => instances[target[t]] # None

(* A daemon that is down runs nothing.                                     *)
DownIdle == phase = "down" => \A t \in Threads : pc[t] = "idle"

(* The inductive invariant.                                                *)
IInv == TypeOK /\ InflightExact /\ LocksHeld /\ EntriesPresent /\ DownIdle

(* While a request is inside its bracket nobody else touches its entry in  *)
(* the map: not another request, not a shutdown, not a reconcile pass.     *)
Isolation ==
    [][\A t \in Threads :
          /\ pc[t] \in Locked \cap Bracketed
          /\ instances'[target[t]] # instances[target[t]]
          /\ phase' = phase
          => pc'[t] # pc[t]]_vars

(* Ids on which a request is inside its bracket.                           *)
Writing == {i \in Ids : \E t \in Threads :
                pc[t] \in Locked \cap Bracketed /\ target[t] = i}

Owners == INSTANCE Ownership
              WITH Entry <- Instance, map <- instances, holder <- lock,
                   writing <- Writing, at <- pc, Idle <- "idle"

(* The map is changed as module Ownership says: no entry changes under a   *)
(* request that has not given it back, and a reconcile pass replaces the   *)
(* map only when none is half changed, however passes, requests, shutdowns *)
(* and the ends of the process interleave.                                 *)
ImplementsOwnership == Owners!Spec

(* What the user last asked for is what memory and file record, across     *)
(* crashes, failures, containers that die or vanish, and every order of    *)
(* the requests, unless the behaviour goes through one of the windows the  *)
(* code leaves open.                                                       *)
IntentKept ==
    windows = {} => \A i \in Ids :
        /\ Recorded(file[i]) \in asked[i]
        /\ phase = "up" => Recorded(instances[i]) \in asked[i]

(* What must survive the daemon.                                           *)
Lasting(i) == IF i = None THEN None ELSE <<i.desired, i.restart, i.suspended>>

(* With no change under way and none waiting to be saved, the file says    *)
(* what memory says: no path changes an instance and returns unsaved.      *)
WriteThrough ==
    /\ phase = "up" /\ windows = {}
    /\ \A t \in Threads : pc[t] \notin Bracketed \cup SavePoints
    => \A i \in Ids : Lasting(file[i]) = Lasting(instances[i])

(* An instance the user stopped is not brought back: not by supervision,   *)
(* not by a boot, not after a shutdown.                                    *)
StopIsKept ==
    windows = {} => \A i \in Ids :
        asked[i] = {"stopped"} /\ container[i] # None
            => container[i].state = "stopped"

(* Data is never wiped under a container.                                  *)
DataUnderContainer == \A i \in Ids : container[i] # None => i \in data

(* No container is left that instances.toml does not name: not by a        *)
(* creation that fails or dies half way, nor by a removal. Labels, which   *)
(* keep the choices of the creation only, are then needed for a file moved *)
(* aside and for nothing else.                                             *)
NoOrphan ==
    windows = {} => \A i \in Ids :
        container[i] # None =>
            file[i] # None /\ (phase = "up" => instances[i] # None)

(* When the daemon has shut down nothing it manages is left running.       *)
QuitStopsAll ==
    /\ \E t \in Threads : pc[t] = "quit"
    /\ windows = {}
    => \A i \in Ids : container[i] # None => container[i].state = "stopped"

(* The next boot starts again whatever the shutdown stopped, whatever its  *)
(* restart policy, however often that boot is interrupted.                 *)
ResumeAfterQuit ==
    [][phase = "boot" /\ phase' = "up" /\ windows = {}
       => \A i \in resume : container[i] # None /\ container[i].state = "running"]_vars

(* Whoever has a mutex works on its instance and waits for no other mutex: *)
(* requests, restores and a shutdown that takes one after the other from   *)
(* within its bracket wait in line and never in a circle.                  *)
NobodyHoldsAndWaits ==
    \A i \in Ids : lock[i] # None =>
        pc[lock[i]] \in Locked /\ target[lock[i]] = i

(* Every request is answered: no order of locks, brackets and saves leaves *)
(* two of them, or a request and the shutdown, waiting for each other.     *)
RequestsEnd ==
    \A t \in Clients : (pc[t] # "idle") ~> (pc[t] = "idle")

(* Passes are not overtaken for ever: again and again one is committed.     *)
PassesCommit == []<><<\E t \in Threads : Commit(t)>>_vars

(* An instance that is recorded as wanted, whatever its exit, and died is  *)
(* started again while the daemon stays up, however requests overlap the   *)
(* passes, as long as now and then one is committed; a pass that was       *)
(* overtaken has seen nothing, and its restore acts on what is in memory.  *)
Wanted(i) ==
    instances[i] # None /\ instances[i].desired = "running" /\ instances[i].restart = "always"
CrashedComesBack ==
    PassesCommit => \A i \in Ids :
        phase = "up" /\ Wanted(i) /\ container[i] # None /\ container[i].state = "stopped"
        ~> \/ container[i] = None \/ container[i].state = "running"
           \/ ~Wanted(i) \/ phase # "up"

=============================================================================

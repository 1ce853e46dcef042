# DBForge in TLA+

A model of DBForge, the daemon that runs local databases in rootless Podman
containers, and of the programs around it, kept beside its code.  It says what
the concurrent parts do, step by step; TLC checks on small instances what must
hold of them, and TLAPS proves some of it for instances of every size.

Paths are relative to `src/dbforge/` unless they begin with `src/`; line
numbers are those of the commit modelled.

## 1. The system

```
 dbctl, TUI, shell widget --HTTP over a Unix socket--> server --> Manager --> Podman
   |        |                                         (goroutine     |  \
   |        +- launch: EnsureDaemon, systemd           per request)  |   allocator (ports)
   |                                                                 |
   |          supervision loop (ticker) --------------------------> Store --> instances.toml
   |                                                                 |
   +-- dbctl status <-- Waybar <----- SIGRTMIN+8 ----- Notifier <---- every save
```

One daemon per user holds all state that lasts; the frontends send it one
request each and show the reply.  Underneath it containers exit, containers are
removed with `podman rm`, the file is edited by hand, the process dies; around
it daemons are started by systemd, by launches and by hand, and windows and bars
show what they last heard.

| Component | State | Operations | Talks to | What is hard |
|---|---|---|---|---|
| Manager `internal/daemon/manager.go` | `instances`, `locks`, `gen`, `inflight` | Create, Start, Stop, RestartInstance, SetRestartPolicy, Remove, List, Reconcile, Restore, Supervise, Suspend | Podman (seconds), Store (file), notifier | requests, passes and the ticker interleave; state is read before a call and used after it; any step may fail or be the last |
| Record and rules `internal/model` | one record per instance, labels on its container | ShouldAutoStart, Labels | Manager | desired state, policy, mark and exit code decide together who comes back |
| Ports `internal/ports` | `reserved`, one allocator per creation | New, Pin, Allocate | Manager, the kernel | choice and record are far apart; wrap-around of the search |
| Store `internal/store` | `digest`, `loadedVersion`, `backedUp`; no mutex | Load, Save, ChangedOnDisk, backup | the file, the user's editor | unguarded fields, hand edits, crash inside a schema upgrade |
| Boot, server, socket `cmd/dbforge`, `internal/daemon/server.go` | socket, quit channel | load, reconcile, restore, serve; handlers | Manager, systemd | requests are not waited for at exit; the socket is probed, removed, bound, and unlinked by name |
| Launch, client `internal/cli` | - | EnsureDaemon; one method per request | socket, systemd | two launches; a daemon on its way out; a reply lost at shutdown |
| Notifier `internal/notify` | pending, timer | Changed, Stop | Waybar, which answers with a request | debounce against late changes; the answer may be a change |
| TUI `internal/tui` | one view, a model per dialog, commands in flight | list, create, destroy, logs, connection string, quit, update | client | late messages applied to what is there now |
| Widget `src/Service.qml` | one process per kind of action, three timers | refresh, start, stop, create, copy, start the daemon | dbctl | dropped actions and refreshes, timers of one action clearing another's status |
| Podman `internal/runtime` | the containers | create, start, stop, remove, list | - | calls ignore their context, take seconds and fail |
| Doctor, engines, pins, termsafe, update, installers | none that lasts | queries, tables, text | - | nothing concurrent |

What makes each correct: *Manager* - what the user last asked for is what is
recorded, kept and restored; nobody works on an entry another request has;
nothing hangs.  *Ports* - no two instances carry one port; a free port is found.
*Store* - the file is never half written, an edit never silently lost, an old
file upgraded and its original kept, a newer one refused.  *Socket and launch* -
the socket leads to the daemon that serves; a launch ends with one; a shutdown
that is reported has happened.  *Bars* - they come to show what is, and the
daemon and a bar do not keep each other awake.  *TUI and widget* - what is shown
and done belongs to what was asked.

## 2. The modules

| Module | Contents |
|---|---|
| `DbInstance` | records, containers, ShouldAutoStart, what a pass makes of an entry and a container: operators only |
| `Manager` | the manager, boot and shutdown, Podman and the file, as a state machine; its properties |
| `Ownership` | abstract: a shared map whose entries are taken, used and given back |
| `ManagerClaims` | statements of the code's own documentation that do not hold |
| `ManagerMC` | model values, symmetry and the state constraint for TLC |
| `ManagerLiveMC` | the two environments in which TLC checks its liveness |
| `ManagerProofs` | proofs about `Manager` |
| `OwnershipProofs` | the proof that `Manager` implements `Ownership` |
| `IntentProofs` | proofs about what `Manager` keeps of the user's intent; extends `ManagerProofs` |
| `Ports`, `PortsMC`, `PortsProofs` | the allocator and concurrent creations, likewise |
| `Store`, `StoreMC` | the Store's unguarded fields, the file, the user's editor, schema versions |
| `StoreProofs` | proofs about `Store` |
| `Daemon`, `DaemonMC` | processes of dbforged, the socket, systemd, launches and shutdowns |
| `DaemonProofs` | proofs about `Daemon` |
| `Notifier` | saves, passes, the debounced signal, and Waybar's module |
| `Widget`, `WidgetMC` | the shell widget, composed with `Notifier`: both bars beside one daemon |
| `WidgetProofs` | proofs about `Widget`, and so about `Notifier` |
| `Tui`, `TuiMC` | the terminal interface, its commands in flight, and what happens elsewhere |
| `TuiProofs` | proofs about `Tui` |

`Manager` extends `DbInstance`, `Widget` extends `Notifier`; the others stand
alone.  They overlap on purpose, each leaving out what another is about.
`Manager` takes a save as a snapshot and a write that succeeds or not: a conflict
always ends in a second, forced save (manager.go:354-364), so it never changes
what is written.  `Store` keeps of the manager only when Load and Save are
called.  `Daemon` keeps only whether the databases run.  `Notifier` keeps of a
pass only whether it saves, and of the instances a number that each change makes
larger.  `Tui` keeps of the daemon a list, whether it answers, and its version.

### Manager

*Steps.*  A thread (client goroutine or supervisor) runs one request.  A step is
one section under `mu`, one call to Podman, one read or write of the file;
assignments in between that nobody else can see join one of these.  `pc` says
where the thread is; the names follow the code (`locked`: has the instance
mutex and has looked up the entry; `begun`: bracket open; `dirty`: about to
save; `drifted`: a pass about to save).

| Code | Model |
|---|---|
| `lockFor(id)`, lock and look-up | `Acquire`, `Refuse`; `lock` |
| `mutating()` and its deferred end | `Bracket`, `Unbracket`; `inflight` |
| `gen` and `startGen` | `moved`: the passes that gen has overtaken.  Only "has it moved since I read it" is ever asked, so no counter is needed and nothing is bounded |
| `*Instance` held over a call | `attached`: whether it is still the object in the map; a write through it is lost when it is not |
| `save` | `Snapshot` (under mu), then `Write` (outside it), which may fail |
| Create | `CreateEntry`, `CreateSaved`, `CreateContainer`, `CreateStart`, `rollback` |
| Start, Stop, SetRestartPolicy through `transition` | `Begin`, then `Start`, `Stop`, `SetRestartPolicy`, then the save |
| RestartInstance | `RestartStop`, `RestartStart` |
| Remove | `RemoveContainer`, `RemoveEntry` |
| Reconcile | `Load`, `ListManaged`, `Commit` or `Discard`, `SaveReconciled` |
| Restore | `TakeCandidates`, `RestoreNext` and a whole Start each, `RestoreDone` |
| Suspend, handleShutdown | a pass, `SuspendBegin`, `SuspendStop` per id, `SaveSuspended`, `Quit` |
| runDaemon | `Launch`, the first pass (`BootFails` ends it), a restore, then phase `up` |

*Abstractions.*  Engine, image, environment, data directory and port are fixed
per id.  Exit codes are 0 and 1.  An image pull, a port choice and anything else
before the entry is recorded either succeeds or abandons the creation.  Podman's
calls are atomic and answer truthfully; with the fault `podman` a call may fail
without effect.  A stop may leave either exit code.  Entries are complete, so
`withDefaults` has nothing to add, and every container has a scope of its own
daemon.

*History variables* guard nothing.  `asked` is the set of intents the record of
an id may show: the last settled one, plus that of a request under way or one
that failed.  `resume` is what a shutdown owes the next boot.  `windows` collects
the unprotected windows the behaviour went through, see 4.

*Ownership.*  The locks, the count and the generations exist so that nobody
changes an entry another is working on.  `Ownership` says that without any of
them: an entry is changed by whoever has taken it, by a mark put on one that
nobody has (a shutdown's, manager.go:1034-1046), or by a survey that may replace
all, while nobody is in the middle of a change.  In `Manager`, `holder` is the
mutex table, `writing` the ids of the requests inside their bracket that hold
their mutex (`Writing`), and `at` is `pc`, which tells whose step it is.

### Ports

`Order`, `First`, `Allocate` and `Pin` are the allocator as functions of the
ports reserved or bound.  The state machine is a creation's path through it:
`NewAllocator` (copy of the recorded ports), `ChoosePort`, `Record`, then
`Created` or `Rollback`, with containers that start and stop and other programs
that bind ports.  `ChoosePort` looks at all ports at one instant, where the code
binds them one after another (ports.go:26-36): what is chosen was free when it was
looked at, and may be taken since, in either.

### Store

Each unguarded read or assignment of a Store field is a step: `LoadVersion` and
`LoadDigest` after the read, `Check`, `Backup`, `BackupWritten`, `Rename`,
`SetDigest`, `SetVersion` in Save.  A digest is modelled by the contents it is
the digest of, an edit by its name, what the daemon changes by a counter `body`.
The user may edit, move the file aside or put another version in place at any
time.  The two reads of the file at boot (main.go:84, then Reconcile's) are one.
Strings are assigned whole: a torn read of `digest` is not modelled.

### Daemon

| Code | Model |
|---|---|
| runDaemon up to Serve | `Run`, `Boot` (reconcile and restore), `BootFails` |
| Serve: Stat, DialTimeout, Remove, Listen, Chmod | `Stat`, `Probe`, `RemoveStale`, `Bind` and `Listen` (two system calls), `Chmod` |
| `srv.Shutdown`, which closes the listener and unlinks the socket | `CloseListener` |
| `srv.Serve` returns, main exits, handlers die | `Exit`, `End` |
| handleShutdown: Suspend, reply, `close(quit)` | `Accept`, `Suspend`, `Reply`, `CloseQuit` |
| the supervision loop, until the process ends | `Supervise` |
| EnsureDaemon, startDaemon, the poll and its deadline | `Launch`, `StartDaemon`, `Poll`, `GiveUp` |
| dbctl shutdown or q y; a client that hangs up | `AskShutdown`, `HangUp` |
| the unit: start, Restart=on-failure, stop | `StartDaemon`, `Restart`, `Terminate` |
| kill -9, dbforged in a terminal | `Kill`, `ByHand` |

`path` is the socket's directory entry: absent, leading to a process, or to none
any more.  `quit` is "soon" between reply and `close(quit)`.  A process that ends
drops its connections; `told` is what a client learnt.  `systemctl start` of an
active unit does nothing; one that is stopping is waited for.

A Suspend has three outcomes: everything is stopped; a stop has failed, and the
reply admits it (`handler` is "admit", `left` has the process); or databases run that
it did not know of, because its reconcile failed (manager.go:1011-1015) or a start
was under way (`unseen`).  The daemon replies and goes whichever it is
(server.go:348-362).  Supervision starts what is suspended as long as the process
lives, after a Suspend too, which makes it `unseen` as well.  `told` keeps
apart what a client was told of failed stops and what it finds.

### Notifier and Widget

`Changed`, `Fire` (the callback resets `pending` under the lock) and `Send`
(outside it) are the notifier; `Act` is any mutation, whose save announces it;
`Pass` is a reconcile pass: it saves, and so announces, only when it has drift to
report.  `drift` is "once" for what a pass repairs (a leftover to adopt or to
prune) and "stuck" for an instance that is missing or has crashed, which each
pass reports anew.  Waybar's module asks when it is signalled, one question at a
time, and again when a signal came meanwhile (that it remembers such a signal is
assumed of Waybar, which is not part of this repository), and every 300 s.

`Widget` has one action per handler of `Service.qml`.  A process is running, or
done with its work and about to exit; it may also fail.  `settle` counts down
the ticks of `settleTimer`, `fade` is `actionStatusTimer`.  The status line is
kept as what it is about.

### Tui

A Bubble Tea program is a loop that takes one message at a time and commands
that run beside it.  `flight` is the bag of commands that run and of messages
they have become: a command that asks the daemon is carried out by a `Serve...`
step, at a time of its own, and its answer is taken by a `...Msg` step, in any
order.  Each key of each view and each message is an action; what is drawn,
typed, scrolled or said in the status line is not.

A command of a log stream, a create or a progress reader carries whether it
belongs to the model there is now or to an earlier one: `Disowned` moves it to
the past when `newLogsModel` or `newCreateModel` replaces the model.  A password
is the right one or, once its instance is gone, stale.  A create without a name,
which only a string that strays in can bring about, is given one by the daemon
(`Meant`).  `picked`, `leaked`, `astray` and `reborn` are history.

`logs.over` is that the end of the current stream has been read, `logs.closed` what
the view says: the end of any stream sets it, since a logClosedMsg does not say
whose it is (model.go:351-353).  A create fails before anything is recorded, or
later: its instance then stays, stopped when it did not start, as it is when only
the save or the answer was lost (manager.go:591-606, client.go:135-139).  A create
that goes on after its client has given up waiting is one made elsewhere.  An
instance is listed from the moment it is there; the entry without container that a
list shows during a creation is left out, and with it a password asked for then.
A shutdown may leave any of the databases running, since the window does not look
at the report (model.go:315-329), and a request that times out leaves the daemon
up, though the window takes it for one that is gone (client.go:80-82).

A `session` is chosen at the start and stays: which keys are pressed, what
happens elsewhere, the instances there are, the names new ones may have and how
many commands may be in flight.  Sessions keep the state space of one run to what
meets: see 3.

## 3. What is checked

All passing runs exhaust their state space.

| Run | Instance | States | Shows |
|---|---|---|---|
| `mgr_one` | 1 id, 2 clients, create/start/stop/remove, crashes, exits | 0.4 M | IntentKept, StopIsKept, DataUnderContainer, Isolation, ImplementsOwnership |
| `mgr_faults` | 1 id, 1 client, stop/restart/remove/create/restore/suspend, every fault, `podman rm` | 2.3 M | IInv, IntentKept, NoOrphan |
| `mgr_two` | 2 ids, create/policy/suspend, crashes, policies `no` and `always` | 4.0 M | WriteThrough, QuitStopsAll, ResumeAfterQuit |
| `mgr_live` | fair, 2 clients, 2 environments: 2 ids, create and suspend; 1 id, create/policy/restart, crashes, exits | 0.09 M | NobodyHoldsAndWaits, RequestsEnd, CrashedComesBack |
| `ports` | 3 ids, range 2..4, a port outside it, 4 bases | 0.1 M | TypeOK, SharedOnlyByOverlap, AllocatorExact |
| `store` | 2 threads, 1 edit, 2 changes, disk failures, crashes | 1.1 M | TypeOK, EditsNotSilentlyLost, OriginalKept, NewerLeftAlone, Upgraded, AlarmsReal |
| `daemon` | fair, 2 processes, 2 clients, 2 troubles | 0.49 M | TypeOK, SocketIsItsOwn, ShutdownTrue, LaunchHolds, ShutdownEnds, ComesUp |
| `bars` | fair, 4 scenes, up to 3 changes | 0.11 M | TypeOK, NoSilentChange, BarsCatchUp, SignalsStop |
| `tui` | fair, 6 sessions, 2 names, 3 to 5 commands in flight | 0.61 M | TypeOK, CreateOnScreen, ShutdownAnswered, StreamsTended, PasswordRight, RemovesWhatWasPicked, ListCatchesUp |

WriteThrough is not checked under the fault `disk`: a save that fails leaves
memory ahead of the file until the next one.  A request that only lists is not
among the runs' requests: it is a pass, and shutdowns and the supervisor begin
with the same pass.

*Why the bounds are enough.*  In the manager races need one request, one other
request or shutdown, and one pass: two clients and the supervisor.  Everything but
the two loops over ids is per id; `mgr_two` has two ids for what one save or one
shutdown does to the other.  The supervisor is a thread of its own and can be in a
pass or a restore while both clients are busy.  No run bounds the length of a
behaviour: `gen` and the file are finite by construction, and crashes and restarts
are unlimited.  `mgr_live` has two environments (`ManagerLiveMC`).  One has what a
circle of waits would take: two ids, a shutdown that takes both mutexes from within
its bracket, a request on either and a restore; id 1 is created before 2 and a
shutdown asked for once both are recorded.  In the other requests about one id come
again and again, so that passes can be overtaken for ever.  `body` of `Store` is
bounded by `MaxBody`: two changes make two saves overlap, and the upgrade of an
older file makes a third.  The ports range of three has a first, a middle and a last
base, and there is one base outside it.

In `Daemon` a socket is fought over by two processes, one of them systemd's, and a
launch and a shutdown meet in two clients.  `Troubles` bounds kills, signals,
failures, failed stops, starts by hand and shutdowns, together; two let a second one
strike while the first is being recovered from.  Starts, launches and systemd's
restarts are not bounded.  When no process is free a launch without a unit starts
none, which only `Daemons` bounds.

In `Notifier` a change is one before, one during and one after a signal or a
question: three.  Two signals may be about to be sent, since the timer fires again
only after another change.  Scenes: Waybar alone with every event; both bars;
the widget in use; the widget beside a daemon that ends and is started from it.
`Ticks` is 2 instead of 6: one tick that is not the last and one that is.

In `Tui` two names make a row above and a row below.  The sessions put together a
destroy with a list that moves under it, creating while instances are removed
elsewhere (a failed create that leaves its instance behind and is sent again takes
five commands in flight), streams with strings that stray in, forms with strings
that stray in, quitting with strings and an update check under way, and toggling
with a world that changes; a command beyond the bound on `flight` is not started, so
a key that would start it waits.  The theorems of 5 have neither bound nor sessions.

*Constraint.*  `NoWindow` stops the search where a window was gone through: most
properties of those runs say nothing from there on.  For those that do, IInv,
Isolation and ImplementsOwnership, the theorems of 5 have no such restriction.
`mgr_live` has no constraint: what `ManagerLiveMC` keeps out are requests nobody has
to make, crashes and exits, none of which is under fairness, and never a step of a
request.  Its `WithoutHistory` takes states that differ in the history alone for
one, since the history guards nothing and none of these properties reads it.
`Daemon`, `Notifier`, `Widget` and `Tui` are searched without constraint; their
properties name the exceptions themselves (below).

*Fairness.*  `Manager`: every thread that has begun goes on - goroutines are
scheduled and Podman's calls return.  Strong fairness, because a goroutine that
waits for a mutex finds it now free, now taken; Go's `sync.Mutex` hands over to a
waiter that has starved for 1 ms.  The ticker ticks.  No client has to ask for
anything, no engine to exit, nobody to launch the daemon.  But clients may ask too
much: a pass that any mutation overlaps is discarded (manager.go:247), and a stream
of requests that overtakes every pass keeps supervision from ever seeing that an
instance has died.  Nothing in the code excludes it, so `CrashedComesBack` asks for
it in its premise (`PassesCommit`: passes are committed again and again).  It speaks
of instances that are recorded as wanted with the policy `always`, whatever was
asked for, so that it needs no window.  It is checked without the fault `podman`
because a start may fail for ever.  A request that a crash cuts off counts as ended:
its client gets an error.

`Daemon`: processes and handlers go on, systemd restarts after its delay, a
launch polls until it finds a daemon or gives up.  Nobody has to launch, shut
down or hang up, and nothing has to go wrong; `ComesUp` therefore asks for
launches in its premise.  `Widget`: timers tick, processes end, questions are
answered, signals sent; acts, exits and the daemon's coming and going are left to
themselves, and what must happen in the end is asked only once they rest.  `Tui`:
the runtime runs every command to its answer and the loop takes every message;
the user presses nothing.

*Exceptions the properties name.*  `raced`: two processes were between Stat and
Chmod at once.  `late`: a launch found a daemon at its shutdown.  `second`: a daemon
came up while another one worked, and its boot starts databases.  `left`: a shutdown
could not stop a database and said so to its own client; another client of that
process is dropped, or told so itself.  `unseen`: databases run that no Suspend has
known of, or that supervision has started since. `missed`: the daemon has ended, and
Stop took the pending signal.  `astray`: a connection string arrived in another view
than the list.  `reborn`: ids created elsewhere; ids a failed create left behind;
ids chosen in the form while an instance of that name was there and not yet in the
list; ids whose password arrived after the instance it is of had gone, or while it
was not in the list.  Each is a way the code is not guarded against, told in 4; the
properties hold of everything else.

*Mutants.*  The operators named `Slip...` are wrong variants of the definition
after them and used by nothing; in its place each breaks a property.

## 4. What does not hold

Three runs show a disagreement of the code with its own words; `PROJECT.json`
quotes them.

- `v_pass`: a pass that replaces an entry between a request's look-up
  (manager.go:724) and its bracket (730) makes a stop go to a dead object; the
  database is started again.
- `v_loop`: an instance that is missing or has crashed is drift for every pass.
  The save that follows announces a change, Waybar asks for the status, asking is
  a pass, and so on: about four signals a second for as long as the instance stays
  that way.  `SignalsStop` shows that nothing else makes such a loop.
- `v_launch`: a launch that connects to a daemon which is suspending, or has
  replied, is content with it; it exits with 0, systemd leaves it down, and the
  application opens on nothing.  `LaunchHolds` shows that this and two processes
  that race are the only ways.

Windows of `Manager`, `Ports` and `Store`.  The safety properties of their passing
runs hold of all behaviours that go through none.  For most of the others a claim
of the documentation is stated beside the properties that the window alone breaks;
but for the first one, which has its run, these are kept without a run.

| Window | What happens | Breaks |
|---|---|---|
| detached | a pass replaces an entry a request has looked up | `StopSurvivesPass` |
| load | a pass reads the file between gen++ and the rename | `DestroyedStaysDestroyed` |
| quit | supervision starts what Suspend has just stopped | `ShutdownLeavesNothing` |
| restore | Restore starts from a stale copy what was stopped meanwhile | `StopSurvivesRestore` |
| reorder | an older snapshot reaches the file last | `CommittedIsSaved` |
| masked | a dropped pass leaves its digest behind | `NeverSilentlyClobbered` |
| torn | a partial backup counts as one | `OriginalAlwaysKept` |
| forget | labels remember the desired state of the creation only (model.go:138) | - |
| overlap | two creations choose a port before either records it (manager.go:497, 538) | - |
| late, swapped | a hand edit behind a thread's back, a file of another version put there under a running daemon: no check can see these | - |
| raced | a save finds the daemon's own write before its digest is known (store.go:251-255), and warns of it | - |

How the claims are broken, and where TLC shows it:

- DestroyedStaysDestroyed (`v_pass.cfg` with Ops create, remove and one client): a
  pass starts after a removal has moved gen (manager.go:345) and reads the file
  before the removal has written it (348); it commits after the removal's end, and
  the destroyed instance is back, against manager_test.go:437-439.
- ShutdownLeavesNothing (Ops create, suspend, one client): a tick of supervision
  whose pass was over before a shutdown began finds the instance the shutdown has
  just stopped and marked, and starts it before the process ends (server.go:337).
- StopSurvivesRestore (Ops create, stop, two clients): supervision copies the entries
  (880-885) while a creation has its container and has not yet started it; the user
  stops the instance; the restore's turn comes (908) and starts it (manager.go:875-876).
- CommittedIsSaved (Ops create, two clients, two ids): of two saves the one that
  copied first (338-341) writes last (348), and the file lacks an instance whose
  creation was reported (manager.go:250).
- NeverSilentlyClobbered (`store.cfg` without constraint and symmetry, no Faults): a
  pass beside a request reads a hand edit and is discarded; its digest stays
  (store.go:140), and the save of the request overwrites the edit (store.go:5-7).
- OriginalAlwaysKept (the same with one thread, MaxBody 1 and the fault `disk`): a
  backup cut short by a full disk counts as one at the next start (store.go:273-277),
  and the original is replaced (store.go:205-206).
- DropMeansDone of `Daemon` (`v_launch.cfg` with Spec, three Troubles and the faults
  shutdown and stop): a shutdown that could not stop a database tells its client and
  goes; another client's shutdown, accepted meanwhile, is dropped, which counts as
  done (client.go:225-228).

Read off the other modules, none of them in a passing property:

- A connection string is shown whatever is on top (model.go:288-291): it covers a
  form, a quit in progress or a log view, and what lies below is not closed.  From
  there the rest follows: a second form while a create runs, a stream whose cancel
  function is overwritten, and `m.shutdown` set to nil by a second quit and written
  to by the first one's failure (322), which ends the program.
- From the same place: the failure of a create whose form has been replaced puts
  the new form at its last step (335-345), from where it is sent with whatever it
  has by then, without a name if it has none; the daemon then chooses one
  (manager.go:432-434).
- A password is fetched once per id and kept while the id is listed (180-210).  An
  instance removed and created again elsewhere between two lists keeps the password
  of the old one; so does one created from this window under a name that was taken
  when it was typed and only not listed yet, or whose password came late, for an
  instance that was not listed.
- The same when a create fails with its instance left behind: its password is
  fetched, the instance removed elsewhere, the form sent again, and the new instance
  shown with the password of the old one.
- A log stream that ends after another one was opened marks the new one "stream
  ended" while its lines go on coming (model.go:351-353, logs.go:137-140, 177).
- After a create that went well `m.create.step` stays `stepSubmitting`, so the
  spinner's message (302-309) goes on for as long as no other form is opened; its
  comment says it stops.
- A second daemon started by hand reconciles and restores before it probes the
  socket (main.go:98-126, server.go:379) and so writes beside the first; it then
  ends.  Two that pass the probe together may remove each other's socket.
- A connection dropped by a daemon that was signalled while it suspended counts
  as a shutdown that is done (client.go:225-228); `dbctl shutdown` says "not
  running" of a daemon that was killed while its databases run (cli.go:278-284).
- main does not wait for `srv.Shutdown` (server.go:393-404): handlers still at
  work, a second shutdown among them, end with the process.
- A container that ends by itself without an error is no drift, so nobody
  announces it: the bar learns of it at its 300 s interval.  `notifier.Stop`
  (main.go:77) drops the announcement of the shutdown itself.

## 5. What is proved

`Spec => []IInv` in `ManagerProofs` (`InductiveInvariant`), and from it
`TypeCorrect`, `BracketBalanced` ([]InflightExact), `EntriesStay`
([]EntriesPresent), `RequestsIsolated` (Isolation) and `NoCircleOfWaits`
([]NobodyHoldsAndWaits: whoever has a mutex works on its id and waits for none, so
no deadlock of mutexes is possible for any number of ids).  `ManagerAssumption` is
all that is assumed: finite sets of ids and clients, distinct sentinels, requests
and faults among those modelled.

*The inductive invariant.*  Isolation is not inductive.  An entry changes by a
request's own write, a `Commit`, a `SuspendStop` or the process ending.  A commit
needs `inflight = 0`, which says that no request is bracketed only if inflight
counts them exactly (`InflightExact`); a shutdown and another request need the id's
mutex, which excludes them only if whoever relies on the mutex holds it
(`LocksHeld`).  `InflightExact` in turn needs the decrement of each way out to meet
its increment (`Bracketed` at the right places) and a daemon that starts from zero
(`DownIdle`).  `EntriesPresent` gives the writes an entry to write to, without
which the types break.  `IInv` is their conjunction; `mgr_faults` checks it under
every fault.  The proof goes action by action, with lemmas on counting
(`Cardinality` after one thread moves) and on the shared endings.

*The refinement.*  `OwnershipProofs` proves `Spec => ImplementsOwnership`
(`ManagerImplementsOwnership`): the initial state is one of `Ownership`, and each
step of `Manager` is a step of it or changes none of its variables.  A step of a
request moves only its own `pc` (`Go`, or `Take`, `Use`, `Give` by what it does to
the mutex and the bracket); a shutdown's step on one id, under that id's mutex,
is `Mark`.  The heart is `Commit`: a survey needs `writing = {}`,
and all the commit knows is `inflight = 0`; `InflightExact` turns the count into
the set.  No other part of the map's protection, neither `gen` nor the mutexes,
can stand in for it: the mutant that drops the count breaks the refinement.

`PortsProofs`: `AllocateFindsFree` and `AllocateComplete` say that the search
returns a free port of the range, and one whenever there is one, for every
range, base and set of taken ports; `SearchesExact` ([]AllocatorExact) puts them
together for every search that is made.  `OnlyOverlapShares` needs that a creation under way
either knows of each recorded port or overlapped its recording
(`ChoosersInformed`), and that the stages are what they say (`StagesRight`).

`DaemonProofs`: SocketIsItsOwn (`SocketOwned`), ShutdownTrue (`ShutdownsTrue`),
LaunchHolds (`LaunchesHold`) and the types (`TypeCorrect`), for any number of
processes, clients and troubles, from `DaemonAssumption`.  None is inductive
alone.  That the socket leads to the one that serves needs that what a process
has found out of the file stays true until it acts on it (`PathHeld`), which
needs that nobody else is past its first look (`OneTakes`, unless `raced`) and
that the file never leads to an ended process (`PathLeads`).  That a dropped client
finds the databases stopped needs what a waiting client's process can be doing
(`Requests`), that a handler which admits a failed stop has left its process in
`left` (`Admitted`), and that from the end of a Suspend to the end of the process
databases run only there or `unseen` (`Suspended`, `Stopped`), for which one process
at most may work (`OneWorks`, unless `second`), and that two that race are two that
work (`RacedIsSecond`), so that a Chmod cannot fail under a client.  So the four
ways named in 3 are all there are in which a client is told of no failed stop, or is
dropped by a daemon nobody signalled, while a database runs.

`TypeCorrect` of `PortsProofs` and of `DaemonProofs` say that the variables keep
their types, without which none of this could be stated.

*What was asked for.*  `IntentProofs`, again from `ManagerAssumption` alone:
`IntentIsKept` (IntentKept), `StoppedStaysStopped` (StopIsKept),
`DataOutlivesContainer` (DataUnderContainer), `NoContainerOrphaned` (NoOrphan),
and `ShutdownStopsAll` (QuitStopsAll) and `FileFollowsMemory` (WriteThrough),
each under the fault named away: when `podman` may fail a Suspend goes on past a
stop that did, and when `disk` may fail memory is ahead of the file; the runs
leave out the same.  Its invariant is IInv, what each thread can be doing
(`Shape`, `Boot`), what a removal knows (`Removing`), and, while no window has been
gone through, `Story`.  What makes `Story` inductive is to speak of all copies of
a record at once: the file, the snapshots on their way there, and memory once the
first pass is over (`Copies`).  Every copy of a record is good (`Kept`) and every
container is named in every copy (`Named`), so whichever save comes last and
whichever copy a crash leaves, the record is one the user asked for.  Around that:
passes that may commit read something still true (`Reads`), snapshots agree with
memory on what their thread has written (`Agreed`), and what is up has a record
that says so (`Stopped`, `Running`).  An action of `Manager` has, as far as this
state goes, one of nineteen effects (`StepEffect`); every conjunct is kept by every
effect, so the actions are opened once and not once per conjunct.

*The store.*  `StoreProofs`, for any threads, edits, changes and faults:
`EditsSurvive`, `OriginalSurvives`, `NewerIsSafe`, `UpIsUpgraded`,
`AlarmsAreReal`, and the types.  The invariant says, under the windows each part can
do without, what version the file has at each point of a boot (`Versioned`), what
the backup holds and who relies on it (`Backed`), where the user's edits are
(`Merged`), and that outside the step between a read or a write and the
assignment of its digest the digest is that of the file (`Known`).

*The bars.*  `WidgetProofs`: `ChangesAreHeard` (NoSilentChange) and the types, of
`Notifier` and `Widget` together.  A bar that is not up to date has a signal to
come: on its way, due when the timer fires, or taken up by a question that is
still to be answered; a question that is already answered covers only what was
saved before the answer (`Heard`).

*The window.*  `TuiProofs`: `CreatesShown` (CreateOnScreen), `ShutdownsAnswered`,
`StreamsAreTended`, `PasswordsRight`, `RemovalsPicked` (RemovesWhatWasPicked) and
the types, for any number of names, instances and commands in flight.  First what the
operations on the bag of commands do to it: commands are traded for others
(`Traded`), and most steps add none of the kinds that matter (`Keeps`).  That at
most one create is in flight (`Single`) needs that its form waits on the screen
(`FormHeld`), which nothing takes from there but a string (`astray`); likewise
a shutdown (`QuitHeld`).  PasswordRight needs that a right password is that of an
instance there is (`Current`), that what is not listed has none (`Forgotten`), and
that the form is about to create only what is not there and has no password
left (`Unborn`); a create that fails adds nothing, or an id that `reborn` remembers
from then on (`CreateEnds`).  The attempt to prove these found the model wrong: a create
without a name broke its type, `reborn` missed two of the ways told in 4, and a
program that died kept its stream; each is now in `Tui`, with a session that
reaches it.

*Only model-checked:* liveness (fairness and ENABLED are out of the prover's
reach): RequestsEnd, CrashedComesBack, ShutdownEnds, ComesUp, BarsCatchUp,
SignalsStop, ListCatchesUp.  ResumeAfterQuit, which would need the
debt of a shutdown in `Story`; QuitStopsAll and WriteThrough do not hold under
the fault their theorem excludes.  No module declares a recursive operator.

## 6. What is not modelled

The rows of `PROJECT.json` with status `not_modelled` say why.  In short: doctor,
the engine tables, the text filter, the widget's layout and the installers keep
no state that two parties share.  Of the commands of dbctl only those are
modelled that others run or wait for; of the release check only that its answer
may come late; of Podman what the manager relies on.  Within the modelled parts:
Podman started by hand, torn reads of strings, pull progress as anything but
messages, the contents of log lines, and the shell widget's search for dbctl,
paste, engine list and installer.

## 7. Plan

Done: `DbInstance`, `Manager`, `Ports`, `Store`, `Ownership` and its refinement,
`Daemon`, `Notifier`, `Widget`, `Tui`; every invariant the runs check is proved.
What is left is proof:

1. ResumeAfterQuit of `Manager`: what a shutdown owes the next boot, as a
   conjunct of `Story` kept by the nineteen effects.
2. An abstract specification of the Store (one file, replaced whole) and of the
   socket (one name, at most one server), implemented outside the windows.

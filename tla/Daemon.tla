------------------------------- MODULE Daemon -------------------------------
(***************************************************************************)
(* How dbforged comes and goes: the start that reconciles and restores     *)
(* before it takes the socket (cmd/dbforge/main.go), the probe, removal    *)
(* and bind of the socket and the shutdown on request                      *)
(* (internal/daemon/server.go), the launch that brings it back             *)
(* (internal/cli/ensure.go), systemd, and the clients.                     *)
(*                                                                         *)
(* What a manager does with its instances is module Manager's; here the    *)
(* databases are all suspended, or they are not.                           *)
(***************************************************************************)
EXTENDS Naturals, FiniteSets

CONSTANTS Daemons,   \* processes there may be; Unit is systemd's, where it has one
          Unit, Clients,
          Troubles,  \* bound: how often something goes wrong, or is shut down
          Faults,    \* which: "kill", "term", "hand", "fail", "shutdown", "stop"
          Nobody

ASSUME DaemonAssumption ==
    /\ Unit \in Daemons /\ Nobody \notin Daemons \cup {"dead"} /\ "dead" \notin Daemons
    /\ Troubles \in Nat
    /\ Faults \subseteq {"kill", "term", "hand", "fail", "shutdown", "stop"}

VARIABLES
    installed,  \* systemd knows the unit
    stage,      \* how far each process has come
    term,       \* ctx of the process is done: SIGTERM
    quit,       \* s.quit of the process: no, soon (the reply is written), yes
    path,       \* the socket's file: none, whose listener it leads to, or "dead"
    databases,  \* suspended, or running: some of them at least
    at, to,     \* each client, and the process it talks to
    handler,    \* the shutdown handler of its request
    troubles,
    \* history, guards nothing
    told,       \* what a client was told of the shutdown it asked for last, since it last
                \* launched, and how things stood then
    cut,        \* clients whose daemon was signalled while it worked for them
    left,       \* processes that could not stop every database, and reported it
    unseen,     \* databases run that no shutdown under way has reported
    launched,   \* a launch went well, and there was no trouble since
    raced,      \* two processes were taking the socket together
    late,       \* a launch found a daemon that was already shutting down
    second      \* a daemon came up while another one worked

process == <<stage, term, quit, path, databases>>
clients == <<at, to, handler>>
history == <<told, cut, left, unseen, launched, raced, late, second>>
vars    == <<installed, process, clients, troubles, history>>

Taking  == {"stat", "dial", "remove", "bind", "listen", "chmod"}
Stages  == {"off", "failed", "boot", "serving", "closing"} \cup Taking
Working(d) == stage[d] \notin {"off", "failed"}

\* The kernel queues connections from listen(2) until the listener is closed.
Listening(d) == d \in Daemons /\ stage[d] \in {"chmod", "serving"}
Reachable    == Listening(path)

Stopping(d) == term[d] \/ quit[d] = "yes"
InShutdown(d) == d \in Daemons /\ (Stopping(d) \/ quit[d] = "soon" \/ \E c \in Clients : to[c] = d)

Init ==
    /\ installed \in BOOLEAN
    /\ stage = [d \in Daemons |-> "off"]
    /\ term = [d \in Daemons |-> FALSE] /\ quit = [d \in Daemons |-> "no"]
    /\ path \in {Nobody, "dead"}
    /\ databases \in {"running", "suspended"}
    /\ at = [c \in Clients |-> "idle"] /\ to = [c \in Clients |-> Nobody]
    /\ handler = [c \in Clients |-> "none"]
    /\ troubles = Troubles
    /\ told = [c \in Clients |-> "nothing"] /\ cut = {} /\ left = {}
    /\ unseen = FALSE /\ launched = FALSE /\ raced = FALSE /\ late = FALSE /\ second = FALSE

Trouble(f) == f \in Faults /\ troubles > 0 /\ troubles' = troubles - 1

\* The process of d ends as code says; what it was doing for a client ends, and
\* the client sees the connection dropped.  systemd starts its unit again after
\* a failure, unless it was told to stop it.
SlipForgotten(d) == {}
Abandoned(d) == {c \in Clients : to[c] = d}
End(d, code) ==
    /\ stage' = [stage EXCEPT ![d] =
                   IF installed /\ d = Unit /\ code # "ok" /\ ~term[d] THEN "failed" ELSE "off"]
    /\ term' = [term EXCEPT ![d] = FALSE] /\ quit' = [quit EXCEPT ![d] = "no"]
    /\ to' = [c \in Clients |-> IF c \in Abandoned(d) THEN Nobody ELSE to[c]]
    /\ handler' = [c \in Clients |-> IF c \in Abandoned(d) THEN "none" ELSE handler[c]]
    /\ at' = [c \in Clients |-> IF c \in Abandoned(d) /\ at[c] = "asked" THEN "idle" ELSE at[c]]
    /\ told' = [c \in Clients |-> IF c \in Abandoned(d) /\ at[c] = "asked"
                  THEN CASE databases = "suspended"         -> "dropped"
                         [] c \in cut \/ code = "killed"    -> "cut short"
                         [] d \in left                     -> "dropped unfinished"
                         [] unseen                         -> "dropped unseen"
                         [] OTHER                          -> "dropped while up"
                  ELSE told[c]]
    /\ left' = left \ {d} /\ unseen' = FALSE

(***************************************************************************)
(* A process of dbforged                                                   *)
(***************************************************************************)
Run(d) ==
    /\ ~Working(d)
    /\ stage' = [stage EXCEPT ![d] = "boot"]
    /\ second' = (second \/ \E e \in Daemons \ {d} : Working(e))
    /\ UNCHANGED <<term, quit, path, databases>>

\* Reconcile, and Restore, whose failures are only logged.
Boot(d) ==
    /\ stage[d] = "boot"
    /\ stage' = [stage EXCEPT ![d] = "stat"]
    /\ databases' \in {databases, "running"}
    /\ UNCHANGED <<installed, term, quit, path, clients, troubles, history>>

\* No podman, a config that cannot be read, a reconcile that fails.
BootFails(d) ==
    /\ stage[d] = "boot"
    /\ \/ term[d] /\ UNCHANGED troubles
       \/ Trouble("fail")
    /\ End(d, "error")
    /\ UNCHANGED <<installed, path, databases, cut, launched, raced, late, second>>

Stat(d) ==
    /\ stage[d] = "stat"
    /\ stage' = [stage EXCEPT ![d] = IF path = Nobody THEN "bind" ELSE "dial"]
    /\ raced' = (raced \/ \E e \in Daemons \ {d} : stage[e] \in Taking)
    /\ UNCHANGED <<installed, term, quit, path, databases, clients, troubles,
                   told, cut, left, unseen, launched, late, second>>

\* Another daemon answers, or the file is a stale one.
SlipNoProbe(d) == FALSE
Answers(d) == Reachable
Probe(d) ==
    /\ stage[d] = "dial"
    /\ \/ /\ Answers(d) /\ End(d, "error") /\ UNCHANGED <<cut, launched, raced, late, second>>
       \/ /\ ~Answers(d)
          /\ stage' = [stage EXCEPT ![d] = "remove"]
          /\ UNCHANGED <<term, quit, clients, history>>
    /\ UNCHANGED <<installed, path, databases, troubles>>

\* By name: the file may be another one by now.
SlipLeaveIt == path
Removed == Nobody
RemoveStale(d) ==
    /\ stage[d] = "remove"
    /\ path' = Removed
    /\ stage' = [stage EXCEPT ![d] = "bind"]
    /\ UNCHANGED <<installed, term, quit, databases, clients, troubles, history>>

Bind(d) ==
    /\ stage[d] = "bind"
    /\ \/ /\ path = Nobody /\ path' = d
          /\ stage' = [stage EXCEPT ![d] = "listen"]
          /\ UNCHANGED <<term, quit, clients, history>>
       \/ /\ path # Nobody /\ UNCHANGED path
          /\ End(d, "error") /\ UNCHANGED <<cut, launched, raced, late, second>>
    /\ UNCHANGED <<installed, databases, troubles>>

Listen(d) ==
    /\ stage[d] = "listen"
    /\ stage' = [stage EXCEPT ![d] = "chmod"]
    /\ UNCHANGED <<installed, term, quit, path, databases, clients, troubles, history>>

Chmod(d) ==
    /\ stage[d] = "chmod"
    /\ \/ /\ path # Nobody
          /\ stage' = [stage EXCEPT ![d] = "serving"]
          /\ UNCHANGED <<term, quit, clients, history>>
       \/ /\ path = Nobody
          /\ End(d, "error") /\ UNCHANGED <<cut, launched, raced, late, second>>
    /\ UNCHANGED <<installed, path, databases, troubles>>

\* srv.Shutdown closes the listener, which unlinks the socket by its name.
CloseListener(d) ==
    /\ stage[d] = "serving" /\ Stopping(d)
    /\ path' = Nobody
    /\ stage' = [stage EXCEPT ![d] = "closing"]
    /\ UNCHANGED <<installed, term, quit, databases, clients, troubles, history>>

\* Serve returns as soon as the listener is closed and main exits, whatever
\* handlers still run.
Exit(d) ==
    /\ stage[d] = "closing"
    /\ End(d, "ok")
    /\ UNCHANGED <<installed, path, databases, troubles, cut, launched, raced, late, second>>

\* A shutdown has stopped what it will stop.
Leaving == \/ \E c \in Clients : handler[c] \in {"reply", "admit", "done"}
           \/ \E d \in Daemons : quit[d] # "no"

\* The supervision loop is started before Serve and runs until the process ends,
\* shutdown or not: what it finds suspended it starts again.
Supervise(d) ==
    /\ stage[d] \in Taking \cup {"serving", "closing"}
    /\ databases = "suspended" /\ databases' = "running"
    /\ unseen' = (unseen \/ Leaving)
    /\ UNCHANGED <<installed, stage, term, quit, path, clients, troubles,
                   told, cut, left, launched, raced, late, second>>

(***************************************************************************)
(* handleShutdown, detached from its request                               *)
(***************************************************************************)
SlipQuitFirst(c) == "yes"
QuitBefore(c) == quit[to[c]]
Accept(c) ==
    /\ handler[c] = "none" /\ at[c] = "asked" /\ to[c] # Nobody /\ stage[to[c]] = "serving"
    /\ handler' = [handler EXCEPT ![c] = "suspend"]
    /\ quit' = [quit EXCEPT ![to[c]] = QuitBefore(c)]
    /\ UNCHANGED <<installed, stage, term, path, databases, at, to, troubles, history>>

\* Suspend stops what is known to run.  It reports the stops that failed; it does
\* not know of what runs behind a reconcile that failed, nor of what a start that
\* is under way brings up.  Whatever it reports, the daemon goes.
Unfinished(c) == left \cup {to[c]}
Suspend(c) ==
    /\ handler[c] = "suspend"
    /\ \/ /\ databases' = "suspended" /\ unseen' = FALSE
          /\ handler' = [handler EXCEPT ![c] = "reply"]
          /\ UNCHANGED <<troubles, left>>
       \/ /\ databases = "running" /\ Trouble("stop")
          /\ handler' = [handler EXCEPT ![c] = "admit"] /\ left' = Unfinished(c)
          /\ UNCHANGED <<databases, unseen>>
       \/ /\ databases = "running" /\ Trouble("stop")
          /\ handler' = [handler EXCEPT ![c] = "reply"] /\ unseen' = TRUE
          /\ UNCHANGED <<databases, left>>
    /\ UNCHANGED <<installed, stage, term, quit, path, at, to, told, cut, launched, raced, late, second>>

\* The answer: what was stopped, and in "admit" what was not.
Answer(c) == CASE handler[c] = "admit"      -> "left some"
               [] databases = "suspended" -> "stopped"
               [] unseen                  -> "stopped unseen"
               [] OTHER                   -> "stopped while up"
Reply(c) ==
    /\ handler[c] \in {"reply", "admit"}
    /\ handler' = [handler EXCEPT ![c] = "done"]
    /\ quit' = [quit EXCEPT ![to[c]] = IF quit[to[c]] = "no" THEN "soon" ELSE quit[to[c]]]
    /\ IF at[c] = "asked"
       THEN told' = [told EXCEPT ![c] = Answer(c)] /\ at' = [at EXCEPT ![c] = "idle"]
       ELSE UNCHANGED <<told, at>>
    /\ UNCHANGED <<installed, stage, term, path, databases, to, troubles,
                   cut, left, unseen, launched, raced, late, second>>

CloseQuit(c) ==
    /\ handler[c] = "done"
    /\ quit' = [quit EXCEPT ![to[c]] = "yes"]
    /\ handler' = [handler EXCEPT ![c] = "none"] /\ to' = [to EXCEPT ![c] = Nobody]
    /\ UNCHANGED <<installed, stage, term, path, databases, at, troubles, history>>

(***************************************************************************)
(* Clients: a launch of the app, and a request to shut down                *)
(***************************************************************************)
Free(c) == at[c] = "idle" /\ to[c] = Nobody

Forget(c) == told' = [told EXCEPT ![c] = "nothing"] /\ cut' = cut \ {c}

\* EnsureDaemon finds one that listens; otherwise it starts one and polls.
Found(c) ==
    /\ at' = [at EXCEPT ![c] = "idle"]
    /\ launched' = TRUE
    /\ late' = (late \/ InShutdown(path))
    /\ Forget(c)
    /\ UNCHANGED <<installed, process, to, handler, troubles, left, unseen, raced, second>>

Launch(c) ==
    /\ Free(c)
    /\ \/ Reachable /\ Found(c)
       \/ /\ ~Reachable
          /\ at' = [at EXCEPT ![c] = "start"]
          /\ Forget(c)
          /\ UNCHANGED <<installed, process, to, handler, troubles, left, unseen,
                         launched, raced, late, second>>

\* systemctl start does nothing to a unit that is active, and waits for one that
\* is being stopped; without a unit the binary is run, whatever else runs.
StartDaemon(c) ==
    /\ at[c] = "start"
    /\ IF installed
       THEN IF Working(Unit) THEN ~term[Unit] /\ UNCHANGED <<process, second>> ELSE Run(Unit)
       ELSE \/ \E d \in Daemons : Run(d)
            \/ (\A d \in Daemons : Working(d)) /\ UNCHANGED <<process, second>>  \* a bound
    /\ at' = [at EXCEPT ![c] = "poll"]
    /\ UNCHANGED <<installed, to, handler, troubles, told, cut, left, unseen, launched, raced, late>>

SlipTrustStart == TRUE
Polled == Reachable
Poll(c) == at[c] = "poll" /\ Polled /\ Found(c)

\* The window opens anyway, on a list that says so.
GiveUp(c) ==
    /\ at[c] = "poll" /\ ~Reachable
    /\ at' = [at EXCEPT ![c] = "idle"]
    /\ UNCHANGED <<installed, process, to, handler, troubles, history>>

\* dbctl shutdown, or q and y in the window.  One that cannot be reached counts
\* as shut down.
AskShutdown(c) ==
    /\ Free(c) /\ Trouble("shutdown")
    /\ launched' = FALSE
    /\ cut' = IF Reachable /\ term[path] THEN cut \cup {c} ELSE cut \ {c}
    /\ IF Reachable
       THEN /\ at' = [at EXCEPT ![c] = "asked"] /\ to' = [to EXCEPT ![c] = path]
            /\ told' = [told EXCEPT ![c] = "nothing"]
       ELSE told' = [told EXCEPT ![c] = "not running"] /\ UNCHANGED <<at, to>>
    /\ UNCHANGED <<installed, process, handler, left, unseen, raced, late, second>>

\* The client waits no longer; the handler goes on.
HangUp(c) ==
    /\ at[c] = "asked" /\ handler[c] # "none"
    /\ at' = [at EXCEPT ![c] = "idle"]
    /\ UNCHANGED <<installed, process, to, handler, troubles, history>>

(***************************************************************************)
(* Trouble                                                                 *)
(***************************************************************************)
Kill(d) ==
    /\ Working(d) /\ Trouble("kill")
    /\ End(d, "killed")
    /\ path' = IF path = d THEN "dead" ELSE path
    /\ launched' = FALSE
    /\ UNCHANGED <<installed, databases, cut, raced, late, second>>

\* systemctl stop, a logout, Ctrl+C in a terminal.
Terminate(d) ==
    /\ Working(d) /\ ~term[d] /\ Trouble("term")
    /\ term' = [term EXCEPT ![d] = TRUE]
    /\ cut' = cut \cup Abandoned(d) /\ launched' = FALSE
    /\ UNCHANGED <<installed, stage, quit, path, databases, clients,
                   told, left, unseen, raced, late, second>>

\* dbforged in a terminal, as the hint of an unreachable daemon suggests.
ByHand(d) ==
    /\ ~(installed /\ d = Unit) /\ Trouble("hand") /\ Run(d)
    /\ UNCHANGED <<installed, clients, told, cut, left, unseen, launched, raced, late>>

Restart ==
    /\ stage[Unit] = "failed" /\ Run(Unit)
    /\ UNCHANGED <<installed, clients, troubles, told, cut, left, unseen, launched, raced, late>>

DaemonStep(d) == \/ Boot(d) \/ BootFails(d) \/ Stat(d) \/ Probe(d) \/ RemoveStale(d) \/ Bind(d)
                 \/ Listen(d) \/ Chmod(d) \/ CloseListener(d) \/ Exit(d)
Handle(c)     == Accept(c) \/ Suspend(c) \/ Reply(c) \/ CloseQuit(c)
Wait(c)       == StartDaemon(c) \/ Poll(c) \/ GiveUp(c)

Next == \/ \E d \in Daemons : DaemonStep(d) \/ Supervise(d) \/ Kill(d) \/ Terminate(d) \/ ByHand(d)
        \/ \E c \in Clients : Handle(c) \/ Wait(c) \/ Launch(c) \/ AskShutdown(c) \/ HangUp(c)
        \/ Restart

Spec == Init /\ [][Next]_vars

\* Processes run, handlers end, systemd restarts after its delay, a launch goes
\* on.  Nobody has to launch, to shut down or to wait; nothing has to go wrong, and
\* supervision has nothing it must start.
FairSpec ==
    /\ Spec
    /\ \A d \in Daemons : WF_vars(DaemonStep(d))
    /\ \A c \in Clients : WF_vars(Handle(c)) /\ WF_vars(Wait(c))
    /\ WF_vars(Restart)
-----------------------------------------------------------------------------
Outcomes == {"nothing", "not running", "stopped", "stopped unseen", "stopped while up", "left some",
             "dropped", "dropped unfinished", "dropped unseen", "dropped while up", "cut short"}

TypeOK ==
    /\ installed \in BOOLEAN
    /\ stage \in [Daemons -> Stages]
    /\ term \in [Daemons -> BOOLEAN] /\ quit \in [Daemons -> {"no", "soon", "yes"}]
    /\ path \in Daemons \cup {Nobody, "dead"}
    /\ databases \in {"running", "suspended"}
    /\ at \in [Clients -> {"idle", "start", "poll", "asked"}]
    /\ to \in [Clients -> Daemons \cup {Nobody}]
    /\ handler \in [Clients -> {"none", "suspend", "reply", "admit", "done"}]
    /\ \A c \in Clients : handler[c] # "none" => to[c] # Nobody /\ stage[to[c]] \in {"serving", "closing"}
    /\ troubles \in 0..Troubles
    /\ told \in [Clients -> Outcomes] /\ cut \subseteq Clients /\ left \subseteq Daemons
    /\ unseen \in BOOLEAN /\ launched \in BOOLEAN
    /\ raced \in BOOLEAN /\ late \in BOOLEAN /\ second \in BOOLEAN

\* A daemon that serves is the one behind the socket: the probe takes a stale
\* file away and never a live one, and closing takes away one's own, however the
\* daemons before it ended (server.go:374-402).  Two that take the socket together
\* may take it from each other.
SocketIsItsOwn ==
    ~raced => \A d \in Daemons : stage[d] = "serving" => path = d

\* A client that is told of no failed stop finds the databases stopped, and so does
\* one whose connection is dropped by a daemon that nobody signalled, however many
\* shutdowns end a process together (server.go:342-364).  Three things make it
\* untrue, and nothing else does: the shutdown of another client on that process
\* that could not stop them all, databases Suspend did not know of or supervision
\* started again, and a daemon that came up meanwhile.
ShutdownTrue ==
    ~second => \A c \in Clients : told[c] \notin {"stopped while up", "dropped while up"}

\* A connection dropped without an answer still means the shutdown happened
\* (client.go:225-228).  A claim: the daemon that drops it is on its way out for
\* another client, and what that one was told nobody tells this one.
DropMeansDone == \A c \in Clients : told[c] # "dropped unfinished"

\* After a launch that went well there is a daemon to talk to, until somebody
\* shuts it down or signals it (ensure.go:18-27); unless the one that was found
\* was already shutting down, or was racing another one.
LaunchHolds ==
    launched /\ ~late /\ ~raced =>
      Reachable /\ ~InShutdown(path)

\* A shutdown that was asked for is answered, or its connection dropped.
ShutdownEnds == \A c \in Clients : at[c] = "asked" ~> at[c] # "asked"

\* When nothing goes wrong any more and the app is launched again and again, a
\* daemon comes to listen, whatever stale socket, failed unit or half-stopped
\* process the past has left; two that take the socket together may go on
\* taking it from each other.
Launching == \E c \in Clients : at[c] \in {"start", "poll"} \/ Reachable
ComesUp == []~raced /\ []<>Launching => <>[]Reachable

\* Launching the app brings the daemon back (ensure.go:21-23).  A claim: a launch
\* that finds a daemon at its shutdown is content with it, and nobody looks again.
LaunchBringsBack == []~raced /\ []<>launched => []<>Reachable
=============================================================================

------------------------------- MODULE Widget -------------------------------
(***************************************************************************)
(* The shell widget's service (Service.qml) beside Waybar: one child       *)
(* process per kind of command, each ignored when asked for while it runs, *)
(* timers that refresh and that clear the status line, and dbctl list,     *)
(* which makes the daemon reconcile as Waybar's question does.             *)
(*                                                                         *)
(* dbctl is found; what is pasted, opened or installed is left out.        *)
(***************************************************************************)
EXTENDS Notifier

CONSTANT Ticks  \* how often the settle timer polls; six times in the code

ASSUME WidgetAssumption == Ticks \in Nat \ {0}

VARIABLES
    list,       \* listProcess: idle, asked, answered
    printed,    \* what dbctl list printed, Offline for a failure
    view,       \* instances, Offline when offline
    run,        \* the other processes: off, running, or done with their work
    status,     \* actionStatus: empty, or what it is about
    error,      \* actionError is set
    settle,     \* ticks the settle timer has left, none when it is stopped
    fade        \* actionStatusTimer runs

Verbs == {"toggle", "create", "copy", "daemon"}
widget == <<list, printed, view, run, status, error, settle, fade>>
vars   == <<nvars, widget>>

Init ==
    /\ NotifierInit
    /\ list = "idle" /\ printed = Offline /\ view = Offline
    /\ run = [v \in Verbs |-> "off"]
    /\ status = "" /\ error = FALSE /\ settle = 0 /\ fade = FALSE

Creating == run["create"] # "off"
Busy     == \E v \in {"toggle", "copy", "daemon"} : run[v] # "off"

\* refresh(): nothing when a list is on its way.
Refresh == list' = IF list = "idle" THEN "asked" ELSE list

\* The user asks for verb v.
Ask(v, label, err, ticks) ==
    /\ scene.widget /\ v \in scene.verbs /\ run[v] = "off"
    /\ run' = [run EXCEPT ![v] = "running"]
    /\ status' = label /\ error' = err /\ settle' = ticks
    /\ UNCHANGED <<nvars, list, printed, view, fade>>
Toggle      == ~Busy /\ view # Offline /\ Ask("toggle", "toggle", FALSE, settle)
Create      == view # Offline /\ Ask("create", "create", FALSE, Ticks)
Copy        == view # Offline /\ Ask("copy", status, error, settle)
StartDaemon == view = Offline /\ Ask("daemon", "daemon", error, settle)

\* The daemon carries a start, a stop or a create out, systemd a start.
Works(v) ==
    /\ run[v] = "running"
    /\ run' = [run EXCEPT ![v] = "done"]
    /\ CASE v \in {"toggle", "create"} -> /\ up /\ world < 1 + scene.changes /\ Act
                                          /\ UNCHANGED <<scene, up, sending, barState, missed>>
         [] v = "copy"   -> up /\ UNCHANGED nvars
         [] v = "daemon" -> IF up THEN UNCHANGED nvars ELSE Up
    /\ UNCHANGED <<list, printed, view, status, error, settle, fade>>

\* dbctl create reports its progress.
CreateLine ==
    /\ run["create"] = "running" /\ status' = "create"
    /\ UNCHANGED <<nvars, list, printed, view, run, error, settle, fade>>

\* A process of verb v exits, well when its work is done.
Exits(v) == run[v] \in {"running", "done"} /\ run' = [run EXCEPT ![v] = "off"]
Well(v)  == run[v] = "done"

ActionExits ==
    /\ Exits("toggle")
    /\ error' = (error \/ ~Well("toggle")) /\ status' = IF Well("toggle") THEN status ELSE ""
    /\ settle' = Ticks /\ Refresh
    /\ UNCHANGED <<nvars, printed, view, fade>>

CreateExits ==
    /\ Exits("create")
    /\ error' = (error \/ ~Well("create")) /\ status' = IF Well("create") THEN "create" ELSE ""
    /\ fade' = (fade \/ Well("create"))
    /\ settle' = Ticks /\ Refresh
    /\ UNCHANGED <<nvars, printed, view>>

CopyExits ==
    /\ Exits("copy")
    /\ status' = IF Well("copy") THEN "copy" ELSE ""
    /\ fade' = TRUE
    /\ UNCHANGED <<nvars, list, printed, view, error, settle>>

DaemonExits ==
    /\ Exits("daemon")
    /\ status' = IF Well("daemon") THEN status ELSE ""
    /\ settle' = Ticks
    /\ UNCHANGED <<nvars, list, printed, view, error, fade>>

(***************************************************************************)
(* Timers and the list                                                     *)
(***************************************************************************)
\* Neither timer clears the line of a create that runs.
Cleared == IF Creating THEN status ELSE ""

SettleTick ==
    /\ settle > 0
    /\ settle' = settle - 1
    /\ Refresh
    /\ status' = IF settle = 1 THEN Cleared ELSE status
    /\ UNCHANGED <<nvars, printed, view, run, error, fade>>

FadeTick ==
    /\ fade /\ fade' = FALSE /\ status' = Cleared
    /\ UNCHANGED <<nvars, list, printed, view, run, error, settle>>

RefreshTick ==
    /\ scene.widget /\ Refresh
    /\ UNCHANGED <<nvars, printed, view, run, status, error, settle, fade>>

ListAsks ==
    /\ list = "asked" /\ list' = "answered"
    /\ printed' = IF up THEN world ELSE Offline
    /\ IF up THEN Pass ELSE UNCHANGED <<drift, saved, pending, armed>>
    /\ UNCHANGED <<scene, up, world, sending, barState, missed, view, run, status, error, settle, fade>>

\* Offline is over with the first list that comes back.
SlipStillOffline == IF view = Offline /\ missed THEN Offline ELSE printed
Listed == printed
ListExits ==
    /\ list = "answered" /\ list' = "idle"
    /\ view' = Listed /\ printed' = Offline
    /\ UNCHANGED <<nvars, run, status, error, settle, fade>>

WidgetNext ==
    \/ Toggle \/ Create \/ Copy \/ StartDaemon
    \/ \E v \in Verbs : Works(v)
    \/ CreateLine \/ ActionExits \/ CreateExits \/ CopyExits \/ DaemonExits
    \/ SettleTick \/ FadeTick \/ RefreshTick \/ ListAsks \/ ListExits

Next == (NotifierNext /\ UNCHANGED widget) \/ WidgetNext

Spec == Init /\ [][Next]_vars

\* Timers tick, processes end, questions are answered, signals are delivered.
\* The user, the containers and the daemon's end are left to themselves.
FairSpec ==
    /\ Spec
    /\ WF_vars(Fire /\ UNCHANGED widget) /\ WF_vars(Send /\ UNCHANGED widget)
    /\ WF_vars((BarStarts \/ BarWakes \/ BarPolls) /\ UNCHANGED widget)
    /\ WF_vars((BarAsks \/ BarShows) /\ UNCHANGED widget)
    /\ WF_vars(ActionExits) /\ WF_vars(CreateExits) /\ WF_vars(CopyExits) /\ WF_vars(DaemonExits)
    /\ WF_vars(SettleTick) /\ WF_vars(FadeTick) /\ WF_vars(RefreshTick)
    /\ WF_vars(ListAsks) /\ WF_vars(ListExits)
-----------------------------------------------------------------------------
TypeOK ==
    /\ scene \in Scenes /\ up \in BOOLEAN
    /\ world \in States /\ saved \in States /\ saved <= world
    /\ drift \in {"none", "once", "stuck"}
    /\ pending \in BOOLEAN /\ armed \in BOOLEAN /\ pending = armed
    /\ sending \in 0..2
    /\ bar \in {"off", "idle", "asking", "answered"} /\ woken \in BOOLEAN
    /\ answer \in States \cup {Offline} /\ shown \in States \cup {Offline}
    /\ list \in {"idle", "asked", "answered"}
    /\ printed \in States \cup {Offline} /\ view \in States \cup {Offline}
    /\ run \in [Verbs -> {"off", "running", "done"}]
    /\ status \in {"", "toggle", "create", "copy", "daemon"} /\ error \in BOOLEAN
    /\ settle \in 0..Ticks /\ fade \in BOOLEAN

Rest == <>[][UNCHANGED <<world, up>>]_vars
Truth == IF up THEN world ELSE Offline

\* Both bars come to show what is, though nobody announces a container that ends
\* by itself, and a question that is asked too early is not asked again at once
\* (module.jsonc:11-18, Service.qml:81-90, 223-230).
BarsCatchUp ==
    Rest => <>[](/\ scene.widget => view = Truth
                 /\ scene.waybar => shown = Truth)

\* A bar that asks, and makes the daemon reconcile, gives it no reason for the
\* next signal: signals stop when nothing changes any more (manager.go:257-276);
\* unless there is drift that every pass reports.
SignalsStop == Rest /\ <>[](drift # "stuck") => <>[](~armed /\ sending = 0)

\* Signals are sent for changes, not every few seconds (notify.go:3-6,
\* module.jsonc:11-13).  A claim: an instance that is missing or has crashed is
\* drift for every pass, so the bar's own question raises the next signal.
SignalsAreForChanges == Rest => <>[](~armed /\ sending = 0)
=============================================================================

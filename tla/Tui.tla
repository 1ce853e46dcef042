-------------------------------- MODULE Tui --------------------------------
(***************************************************************************)
(* The terminal interface (internal/tui): one event loop that owns all     *)
(* state, and commands that run beside it, each of which asks the daemon   *)
(* something and comes back as a message.  Nothing orders the messages     *)
(* among themselves or against the keys: an answer may arrive when the     *)
(* user is in another view, has opened another log or another form.        *)
(*                                                                         *)
(* A step is one call of Update (a key or a message), one request carried  *)
(* out by the daemon, or something that happens outside this window.       *)
(* What a key or a message draws is left out; Screen is what is on top.    *)
(***************************************************************************)
EXTENDS Naturals, FiniteSets, Functions, Bags
INSTANCE BagsExt

CONSTANTS Names,      \* ids an instance may have; their order is the list's
          Sessions    \* what may be tried together: which keys of the list view
                      \* the user presses, what happens elsewhere meanwhile,
                      \* what there is at first, the names given to new
                      \* instances and, a bound, the commands in flight at once

ASSUME TuiAssumption ==
    /\ Names \subseteq Nat \ {0}
    /\ IsFiniteSet(Names)
    /\ \A s \in Sessions :
         /\ s.keys \subseteq {"q", "u", "j", "r", "s", "R", "l", "c", "n", "d"}
         /\ s.elsewhere \subseteq {"toggle", "create", "remove", "down", "up", "upgrade"}
         /\ s.names \subseteq Names
         /\ s.flight \in Nat
         /\ s.world \in [Names -> {"none", "stopped", "running"}]

VARIABLES
    session,    \* one of Sessions, for good
    phase,      \* the process: up, quit, or dead of a nil pointer
    view,       \* the screen on top
    list,       \* m.instances, by id
    cursor,     \* m.cursor, from 0
    fetched,    \* m.loaded and m.daemonErr: what the last fetch came to
    passwords,  \* m.passwords; "stale" is that of an earlier instance
    note,       \* m.daemonVersion is set: the upgrade is announced
    destroy,    \* m.destroy
    form,       \* m.create
    logs,       \* m.logs
    shutdown,   \* m.shutdown
    update,     \* m.update
    flight,     \* bag of commands that run and of messages they became
    world,      \* what instances there are, as the daemon would list them
    daemon,     \* whether it answers
    build,      \* its version compared with this window's
    \* history, guards nothing
    picked,     \* the row under the cursor when d was pressed
    leaked,     \* a log stream was replaced that nobody can end any more
    astray,     \* a connection string arrived outside the list view
    reborn      \* ids created again elsewhere, left there by a create that
                \* failed, named in the form while they were there unlisted, or
                \* whose password came when they were not listed or no longer there

listVars == <<list, cursor, fetched, passwords>>
dialogs  == <<destroy, form, logs, shutdown, update>>
outside  == <<session, world, daemon, build>>
history  == <<picked, leaked, astray, reborn>>
vars     == <<phase, view, listVars, note, dialogs, flight, outside, history>>

(***************************************************************************)
(* Commands in flight.  Those that ask the daemon carry what they ask; the *)
(* messages they become carry its answer.  "of" tells whose log stream or  *)
(* create form a command belongs to: the one in the model now, or an       *)
(* earlier one.                                                            *)
(***************************************************************************)
Status == {"none", "stopped", "running"}

Asking == [tag : {"list", "shutdown", "conn", "update", "version", "tick", "spin"}]
            \cup [tag : {"start", "stop", "restart", "password"}, id : Names]
            \cup [tag : {"remove"}, id : Names, wipe : BOOLEAN, typed : Names \cup {0}]
            \cup [tag : {"create"}, id : Names \cup {0}, of : {"now", "past"}]
            \cup [tag : {"logs"}, of : {"now", "past"}]
            \cup [tag : {"pull"}, of : {"now", "past"}]
Answers == [tag : {"instancesMsg"}, ok : BOOLEAN, rows : [Names -> Status]]
            \cup [tag : {"actionDoneMsg"}]
            \cup [tag : {"passwordMsg"}, id : Names, pw : {"right", "stale", "error"}]
            \cup [tag : {"createdMsg"}, ok : BOOLEAN, of : {"now", "past"}]
            \cup [tag : {"shutdownDoneMsg"}, result : {"ok", "unreachable", "error"}]

Is(tag)      == [tag |-> tag]
Fetch        == Is("list")
InFlight(T)  == {c \in DOMAIN flight : c.tag \in T}
Running(T)   == InFlight(T) # {}

\* Commands cmds start beside those that run.
Launch(cmds) == /\ flight' = flight (+) SetToBag(cmds)
                /\ BagCardinality(flight') <= session.flight
\* Message c is taken by Update, which starts cmds.
Take(c, cmds) == /\ c \in DOMAIN flight
                 /\ flight' = BagRemove(flight, c) (+) SetToBag(cmds)

\* The commands of the kinds T now belong to something the model has let go of.
LetGo(c) == [c EXCEPT !.of = "past"]
Disowned(T) ==
    LET Owned == {c \in InFlight(T) : c.of = "now"}
    IN Restrict(flight, DOMAIN flight \ Owned)
          (+) [n \in {LetGo(c) : c \in Owned} |-> flight[[n EXCEPT !.of = "now"]]]

(***************************************************************************)
(* The list view                                                           *)
(***************************************************************************)
\* The rows are the instances in the order of their ids; the first is row 0.
Rows(l)   == {i \in Names : l[i] # "none"}
Row(l, i) == Cardinality({j \in Rows(l) : j < i})
LastRow(l) == IF Rows(l) = {} THEN 0 ELSE Cardinality(Rows(l)) - 1
Marked     == {i \in Rows(list) : Row(list, i) = cursor}
Selectable == Marked # {}
Selected   == CHOOSE i \in Marked : TRUE

Screen == IF view # "list" THEN view
          ELSE IF fetched # "ok" THEN fetched
          ELSE IF Rows(list) = {} THEN "empty" ELSE "rows"

\* live: nobody has cancelled it; over: its end has been read; closed: m.logs.closed,
\* what the view says of it.
NoStream == [live |-> FALSE, over |-> FALSE, closed |-> FALSE]
Stream   == [NoStream EXCEPT !.live = TRUE]
NewForm  == [step |-> "engine", id |-> 0, ch |-> "nil"]
NoDialog == [id |-> 0, wipe |-> FALSE, step |-> "choose"]

Init ==
    /\ phase = "up" /\ view = "list"
    /\ list = [i \in Names |-> "none"] /\ cursor = 0 /\ fetched = "loading"
    /\ passwords = [i \in Names |-> "none"]
    /\ note = FALSE
    /\ destroy = NoDialog /\ form = NewForm /\ logs = NoStream
    /\ shutdown = "nil" /\ update = "nil"
    /\ flight = SetToBag({Fetch, Is("version"), Is("tick")})
    /\ session \in Sessions
    /\ world = session.world /\ daemon = "up" /\ build = "same"
    /\ picked = 0 /\ leaked = FALSE /\ astray = FALSE /\ reborn = {}

\* Key k arrives in view v.
Key(v, k) == phase = "up" /\ view = v /\ (v = "list" => k \in session.keys)

AskQuit ==
    /\ Key("list", "q")
    /\ shutdown' = "asking" /\ view' = "quit"
    /\ UNCHANGED <<phase, listVars, note, destroy, form, logs, update, flight, outside, history>>

StartUpdate ==
    /\ Key("list", "u")
    /\ update' = "checking" /\ view' = "update"
    /\ Launch({Is("update")})
    /\ UNCHANGED <<phase, listVars, note, destroy, form, logs, shutdown, outside, history>>

MoveCursor ==
    /\ Key("list", "j")
    /\ cursor' \in {0, LastRow(list)} \cup (IF cursor > 0 THEN {cursor - 1} ELSE {})
                     \cup (IF cursor < LastRow(list) THEN {cursor + 1} ELSE {})
    /\ UNCHANGED <<phase, view, list, fetched, passwords, note, dialogs, flight, outside, history>>

Refresh ==
    /\ Key("list", "r")
    /\ Launch({Fetch})
    /\ UNCHANGED <<phase, view, listVars, note, dialogs, outside, history>>

\* s does what the row's status calls for, R restarts whatever it is.
Toggle ==
    /\ Selectable
    /\ \/ /\ Key("list", "s")
          /\ Launch({[tag |-> IF list[Selected] = "running" THEN "stop" ELSE "start",
                      id |-> Selected]})
       \/ /\ Key("list", "R")
          /\ Launch({[tag |-> "restart", id |-> Selected]})
    /\ UNCHANGED <<phase, view, listVars, note, dialogs, outside, history>>

AskConn ==
    /\ Key("list", "c") /\ Selectable
    /\ Launch({Is("conn")})
    /\ UNCHANGED <<phase, view, listVars, note, dialogs, outside, history>>

\* A new logsModel replaces the one there was, and its cancel function with it.
OpenLogs ==
    /\ Key("list", "l") /\ Selectable
    /\ logs' = Stream
    /\ view' = "logs"
    /\ flight' = Disowned({"logs"}) (+) SetToBag({[tag |-> "logs", of |-> "now"]})
    /\ BagCardinality(flight') <= session.flight
    /\ leaked' = (leaked \/ (logs.live /\ ~logs.over))
    /\ UNCHANGED <<phase, listVars, note, destroy, form, shutdown, update, outside,
                   picked, astray, reborn>>

OpenForm ==
    /\ Key("list", "n")
    /\ form' = NewForm /\ view' = "create"
    /\ flight' = Disowned({"create", "createdMsg", "pull"})
    /\ UNCHANGED <<phase, listVars, note, destroy, logs, shutdown, update, outside, history>>

AskDestroy ==
    /\ Key("list", "d") /\ Selectable
    /\ destroy' = [id |-> Selected, wipe |-> FALSE, step |-> "choose"]
    /\ picked' = Selected /\ view' = "destroy"
    /\ UNCHANGED <<phase, listVars, note, form, logs, shutdown, update, flight, outside,
                   leaked, astray, reborn>>

(***************************************************************************)
(* The other views                                                         *)
(***************************************************************************)
Back == view' = "list"

SlipJustLeave ==
    /\ Key("logs", "esc") /\ Back
    /\ Launch({Fetch})
    /\ UNCHANGED <<phase, listVars, note, dialogs, outside, history>>
CloseLogs ==
    /\ Key("logs", "esc")
    /\ logs' = [logs EXCEPT !.live = FALSE] /\ Back
    /\ Launch({Fetch})
    /\ UNCHANGED <<phase, listVars, note, destroy, form, shutdown, update, outside, history>>

CloseConn ==
    /\ Key("conn", "esc") /\ Back
    /\ UNCHANGED <<phase, listVars, note, dialogs, flight, outside, history>>

CloseUpdate ==
    /\ Key("update", "esc") /\ Back
    /\ update' = "nil"
    /\ IF update = "nil" THEN UNCHANGED flight ELSE Launch({Fetch})
    /\ UNCHANGED <<phase, listVars, note, destroy, form, logs, shutdown, outside, history>>

\* esc does not abandon a create in flight.
SlipAbandon ==
    /\ Key("create", "esc") /\ Back
    /\ UNCHANGED <<phase, listVars, note, dialogs, flight, outside, history>>
LeaveForm ==
    /\ Key("create", "esc") /\ form.step # "submitting" /\ Back
    /\ UNCHANGED <<phase, listVars, note, dialogs, flight, outside, history>>

\* enter on the engine, version and port; and on a name the list does not have.
AdvanceForm ==
    /\ Key("create", "enter")
    /\ \/ form.step = "engine" /\ form' = [form EXCEPT !.step = "version"] /\ UNCHANGED reborn
       \/ form.step = "version" /\ form' = [form EXCEPT !.step = "name"] /\ UNCHANGED reborn
       \/ /\ form.step = "name"
          /\ \E i \in session.names :
               /\ list[i] = "none"
               /\ form' = [form EXCEPT !.id = i, !.step = "port"]
               /\ reborn' = reborn \cup ({i} \cap Rows(world))
       \/ form.step = "port" /\ form' = [form EXCEPT !.step = "restart"] /\ UNCHANGED reborn
    /\ UNCHANGED <<phase, view, listVars, note, destroy, logs, shutdown, update, flight, outside,
                   picked, leaked, astray>>

\* enter on the policy sends the form, with a progress channel of its own; a
\* reader of the channel of an earlier attempt may still be there.
Submit ==
    /\ Key("create", "enter") /\ form.step = "restart"
    /\ form' = [form EXCEPT !.step = "submitting", !.ch = "open"]
    /\ flight' = Disowned({"pull"}) (+) SetToBag({[tag |-> "create", id |-> form.id, of |-> "now"],
                                       [tag |-> "pull", of |-> "now"], Is("spin")})
    /\ BagCardinality(flight') <= session.flight
    /\ UNCHANGED <<phase, view, listVars, note, destroy, logs, shutdown, update, outside, history>>

ChooseDestroy ==
    /\ Key("destroy", "tab") /\ destroy.step = "choose"
    /\ destroy' = [destroy EXCEPT !.wipe = ~destroy.wipe]
    /\ UNCHANGED <<phase, view, listVars, note, form, logs, shutdown, update, flight, outside, history>>

\* esc, from the name back to the choice and from there to the list.
LeaveDestroy ==
    /\ Key("destroy", "esc")
    /\ \/ destroy.step = "choose" /\ Back /\ UNCHANGED destroy
       \/ destroy.step = "typeName" /\ destroy' = [destroy EXCEPT !.step = "choose"] /\ UNCHANGED view
    /\ UNCHANGED <<phase, listVars, note, form, logs, shutdown, update, flight, outside, history>>

\* What submitDestroy sends: the instance captured by d, not the row that is
\* under the cursor by now.
SlipUnderCursor == IF Selectable THEN Selected ELSE destroy.id
Doomed == destroy.id
SubmitDestroy(typed) ==
    /\ destroy' = [destroy EXCEPT !.step = "working"] /\ Back
    /\ Launch({[tag |-> "remove", id |-> Doomed, wipe |-> destroy.wipe, typed |-> typed]})

\* enter: keeping the data goes ahead, wiping it asks for the name first.
ConfirmDestroy ==
    /\ Key("destroy", "enter")
    /\ \/ destroy.step = "choose" /\ ~destroy.wipe /\ SubmitDestroy(0)
       \/ /\ destroy.step = "choose" /\ destroy.wipe
          /\ destroy' = [destroy EXCEPT !.step = "typeName"] /\ UNCHANGED <<view, flight>>
       \/ /\ destroy.step = "typeName"
          /\ \E typed \in Names : typed = destroy.id /\ SubmitDestroy(typed)
    /\ UNCHANGED <<phase, listVars, note, form, logs, shutdown, update, outside, history>>

\* The process ends; its streams and commands end with it.
End(how) == /\ phase' = how
            /\ logs' = [logs EXCEPT !.live = FALSE] /\ flight' = EmptyBag

\* While a shutdown works the quit view takes no key.
ConfirmQuit ==
    /\ Key("quit", "y") /\ shutdown \in {"asking", "failed"}
    /\ shutdown' = "working"
    /\ Launch({Is("shutdown")})
    /\ UNCHANGED <<phase, view, listVars, note, destroy, form, logs, update, outside, history>>

SlipCancelAnyway ==
    /\ Key("quit", "n")
    /\ shutdown' = "nil" /\ Back
    /\ UNCHANGED <<phase, listVars, note, destroy, form, logs, update, flight, outside, history>>
CancelQuit ==
    /\ Key("quit", "n") /\ shutdown # "working"
    /\ shutdown' = "nil" /\ Back
    /\ UNCHANGED <<phase, listVars, note, destroy, form, logs, update, flight, outside, history>>

CloseWindow ==
    /\ \/ Key("quit", "w") /\ shutdown \in {"asking", "failed"}
       \/ phase = "up"      \* Ctrl+C, from any view
    /\ End("quit")
    /\ UNCHANGED <<view, listVars, note, destroy, form, shutdown, update, outside, history>>

Keyboard ==
    \/ AskQuit \/ StartUpdate \/ MoveCursor \/ Refresh \/ Toggle \/ AskConn
    \/ OpenLogs \/ OpenForm \/ AskDestroy
    \/ CloseLogs \/ CloseConn \/ CloseUpdate
    \/ LeaveForm \/ AdvanceForm \/ Submit
    \/ ChooseDestroy \/ LeaveDestroy \/ ConfirmDestroy
    \/ ConfirmQuit \/ CancelQuit \/ CloseWindow

(***************************************************************************)
(* Messages                                                                *)
(***************************************************************************)
\* Only the list view polls, but the ticker goes on under every view.
SlipPause == IF view = "list" THEN {Is("tick"), Fetch} ELSE {}
Ticked == {Is("tick")} \cup (IF view = "list" THEN {Fetch} ELSE {})
TickMsg ==
    /\ phase = "up"
    /\ Take(Is("tick"), Ticked)
    /\ BagCardinality(flight') <= session.flight
    /\ UNCHANGED <<phase, view, listVars, note, dialogs, outside, history>>

\* fetchMissingPasswords: ask for those not known, forget those not listed.
SlipKeep(l, pws) == pws
Listed(l, pws) == [i \in Names |-> IF l[i] = "none" THEN "none" ELSE pws[i]]
Missing(l, pws) == {[tag |-> "password", id |-> i] : i \in {j \in Names : l[j] # "none" /\ pws[j] = "none"}}

SlipNoClamp(l, c) == c
Clamped(l, c) == IF c > LastRow(l) THEN LastRow(l) ELSE c

InstancesMsg ==
    /\ phase = "up"
    /\ \E m \in InFlight({"instancesMsg"}) :
         /\ fetched' = IF m.ok THEN "ok" ELSE "unreachable"
         /\ list' = IF m.ok THEN m.rows ELSE list
         /\ cursor' = Clamped(list', cursor)
         /\ passwords' = Listed(list', passwords)
         /\ Take(m, Missing(list', passwords))
    /\ UNCHANGED <<phase, view, note, dialogs, outside, history>>

PasswordMsg ==
    /\ phase = "up"
    /\ \E m \in InFlight({"passwordMsg"}) :
         /\ passwords' = IF m.pw = "error" THEN passwords ELSE [passwords EXCEPT ![m.id] = m.pw]
         /\ reborn' = IF m.pw = "stale" \/ (m.pw = "right" /\ list[m.id] = "none")
                      THEN reborn \cup {m.id} ELSE reborn
         /\ Take(m, {})
    /\ UNCHANGED <<phase, view, list, cursor, fetched, note, dialogs, outside, picked, leaked, astray>>

ActionDoneMsg ==
    /\ phase = "up"
    /\ Take(Is("actionDoneMsg"), {Fetch})
    /\ UNCHANGED <<phase, view, listVars, note, dialogs, outside, history>>

\* The string is shown at once, whatever is on top by then.
ConnStringMsg ==
    /\ phase = "up"
    /\ Take(Is("conn"), {})
    /\ view' = "conn"
    /\ astray' = (astray \/ view \notin {"list", "conn"})
    /\ UNCHANGED <<phase, listVars, note, dialogs, outside, picked, leaked, reborn>>

\* A reader of a progress channel comes back with a report, and the next one
\* waits on the channel of the form there is now, for ever if it has none; or
\* the channel was closed.
NextReport == IF form.ch = "nil" THEN {} ELSE {[tag |-> "pull", of |-> "now"]}
PullMsg ==
    /\ phase = "up"
    /\ \E m \in InFlight({"pull"}) :
         \/ /\ m.of = "now" => form.ch = "open"
            /\ Take(m, NextReport)
         \/ /\ m.of = "now" => form.ch = "closed"
            /\ Take(m, {})
    /\ UNCHANGED <<phase, view, listVars, note, dialogs, outside, history>>

SpinMsg ==
    /\ phase = "up"
    /\ Take(Is("spin"), IF form.step = "submitting" THEN {Is("spin")} ELSE {})
    /\ UNCHANGED <<phase, view, listVars, note, dialogs, outside, history>>

\* A form that failed stays, at the policy; one that went well is left as it is.
CreatedMsg ==
    /\ phase = "up"
    /\ \E m \in InFlight({"createdMsg"}) :
         \/ /\ m.ok
            /\ view' = "list" /\ UNCHANGED form
            /\ Take(m, {Fetch})
         \/ /\ ~m.ok
            /\ form' = [form EXCEPT !.step = "restart"] /\ UNCHANGED view
            /\ Take(m, {})
    /\ UNCHANGED <<phase, listVars, note, destroy, logs, shutdown, update, outside, history>>

\* A line, and the next one is waited for on the channel of the logs there are
\* now; or the end of a stream, which counts as the end of the one there is now
\* though it be that of an earlier one.
NextLine == {[tag |-> "logs", of |-> "now"]}
LogMsg ==
    /\ phase = "up"
    /\ \E m \in InFlight({"logs"}) :
         \/ /\ ~(m.of = "now" /\ logs.over)
            /\ Take(m, NextLine) /\ UNCHANGED logs
         \/ /\ Take(m, {})
            /\ logs' = [logs EXCEPT !.over = logs.over \/ m.of = "now", !.closed = TRUE]
    /\ UNCHANGED <<phase, view, listVars, note, destroy, form, shutdown, update, outside, history>>

UpdateCheckedMsg ==
    /\ phase = "up"
    /\ Take(Is("update"), {})
    /\ update' = IF update = "nil" THEN "nil" ELSE "done"
    /\ UNCHANGED <<phase, view, listVars, note, destroy, form, logs, shutdown, outside, history>>

\* Success, or a daemon that cannot be reached, ends the program.  Any other
\* failure is written to m.shutdown, which may have become nil.
ShutdownDoneMsg ==
    /\ phase = "up"
    /\ \E m \in InFlight({"shutdownDoneMsg"}) :
         \/ m.result \in {"ok", "unreachable"} /\ End("quit") /\ UNCHANGED shutdown
         \/ m.result = "error" /\ shutdown # "nil" /\ shutdown' = "failed"
            /\ Take(m, {}) /\ UNCHANGED <<phase, logs>>
         \/ m.result = "error" /\ shutdown = "nil" /\ End("dead") /\ UNCHANGED shutdown
    /\ UNCHANGED <<view, listVars, note, destroy, form, update, outside, history>>

\* The version is asked for once, by Init.
StaleMsg ==
    /\ phase = "up"
    /\ Take(Is("version"), {})
    /\ note' = (note \/ (daemon = "up" /\ build = "newer"))
    /\ UNCHANGED <<phase, view, listVars, dialogs, outside, history>>

Update == \/ TickMsg \/ InstancesMsg \/ PasswordMsg \/ ActionDoneMsg \/ ConnStringMsg
          \/ PullMsg \/ SpinMsg \/ CreatedMsg \/ LogMsg \/ UpdateCheckedMsg
          \/ ShutdownDoneMsg \/ StaleMsg

(***************************************************************************)
(* The daemon carries out a command, or cannot be reached.                 *)
(***************************************************************************)
Outdated(i, pw) == IF pw = "right" THEN "stale" ELSE pw

\* Instance i is gone, and every copy of its password is one of the past.
Password(i, pw) == [tag |-> "passwordMsg", id |-> i, pw |-> pw]
Gone(i, b) ==
    IF Password(i, "right") \notin DOMAIN b THEN b
    ELSE Restrict(b, DOMAIN b \ {Password(i, "right")})
            (+) [c \in {Password(i, "stale")} |-> b[Password(i, "right")]]

Vanish(i, b) ==
    /\ world[i] # "none"
    /\ world' = [world EXCEPT ![i] = "none"]
    /\ passwords' = [passwords EXCEPT ![i] = Outdated(i, passwords[i])]
    /\ flight' = Gone(i, b)

\* c has been carried out and comes back as m.
Answered(c, m) == BagRemove(flight, c) (+) SetToBag({m})
Done == Is("actionDoneMsg")

ServeList ==
    /\ phase = "up" /\ Fetch \in DOMAIN flight
    /\ flight' = Answered(Fetch, [tag |-> "instancesMsg", ok |-> daemon = "up",
                                 rows |-> IF daemon = "up" THEN world ELSE [i \in Names |-> "none"]])
    /\ UNCHANGED <<phase, view, listVars, note, dialogs, outside, history>>

ServePassword ==
    /\ phase = "up"
    /\ \E c \in InFlight({"password"}) :
         flight' = Answered(c, Password(c.id,
                     IF daemon = "up" /\ world[c.id] # "none" THEN "right" ELSE "error"))
    /\ UNCHANGED <<phase, view, listVars, note, dialogs, outside, history>>

ServeAction ==
    /\ phase = "up"
    /\ \E c \in InFlight({"start", "stop", "restart"}) :
         /\ flight' = Answered(c, Done)
         /\ \/ UNCHANGED world
            \/ /\ daemon = "up" /\ world[c.id] # "none"
               /\ world' = [world EXCEPT ![c.id] = IF c.tag = "stop" THEN "stopped" ELSE "running"]
    /\ UNCHANGED <<session, phase, view, listVars, note, dialogs, daemon, build, history>>

ServeRemove ==
    /\ phase = "up"
    /\ \E c \in InFlight({"remove"}) :
         \/ daemon = "up" /\ Vanish(c.id, Answered(c, Done))
         \/ flight' = Answered(c, Done) /\ UNCHANGED <<world, passwords>>
    /\ UNCHANGED <<session, phase, view, list, cursor, fetched, note, dialogs, daemon, build, history>>

\* The progress channel is closed before the answer is handed over.  A form that
\* was sent without a name (0) is given one of the daemon's choice.  A create that
\* fails is rolled back, or leaves its instance behind: stopped, when it does not
\* start, and as it is when only the save or the answer is lost.
Meant(c) == IF c.id = 0 THEN session.names ELSE {c.id}
Made(ok) == IF ok THEN {"running"} ELSE {"stopped", "running"}
ServeCreate ==
    /\ phase = "up"
    /\ \E c \in InFlight({"create"}), ok \in BOOLEAN :
         /\ \/ ~ok /\ UNCHANGED <<world, reborn>>
            \/ /\ daemon = "up"
               /\ \E i \in Meant(c) :
                    /\ world[i] = "none"
                    /\ \E s \in Made(ok) : world' = [world EXCEPT ![i] = s]
                    /\ reborn' = IF ok THEN reborn ELSE reborn \cup {i}
         /\ flight' = Answered(c, [tag |-> "createdMsg", ok |-> ok, of |-> c.of])
         /\ form' = IF c.of = "now" THEN [form EXCEPT !.ch = "closed"] ELSE form
    /\ UNCHANGED <<session, phase, view, listVars, note, destroy, logs, shutdown, update, daemon, build,
                   picked, leaked, astray>>

\* Suspend and exit, whatever it could not stop: the report is not looked at; or a
\* daemon that was down, or dies before it answers; or an answer that cannot be
\* read, or that does not come in time from a daemon that is still at it.
ServeShutdown ==
    /\ phase = "up" /\ Running({"shutdown"})
    /\ \/ /\ daemon = "up" /\ daemon' = "down"
          /\ \E stopped \in SUBSET Names :
               world' = [i \in Names |-> IF i \in stopped /\ world[i] = "running" THEN "stopped"
                                        ELSE world[i]]
          /\ \E r \in {"ok", "unreachable", "error"} :
               flight' = Answered(Is("shutdown"), [tag |-> "shutdownDoneMsg", result |-> r])
       \/ /\ daemon' \in {daemon, "down"} /\ UNCHANGED world
          /\ flight' = Answered(Is("shutdown"), [tag |-> "shutdownDoneMsg", result |-> "unreachable"])
    /\ UNCHANGED <<session, phase, view, listVars, note, dialogs, build, history>>

Serve == ServeList \/ ServePassword \/ ServeAction \/ ServeRemove \/ ServeCreate \/ ServeShutdown

\* dbctl, the widget, another window, systemd, the containers themselves.
Outside ==
    /\ phase = "up"
    /\ \/ /\ "toggle" \in session.elsewhere
          /\ \E i \in Names :
               /\ world[i] # "none"
               /\ world' = [world EXCEPT ![i] = IF @ = "running" THEN "stopped" ELSE "running"]
          /\ UNCHANGED <<daemon, build, passwords, flight, reborn>>
       \/ /\ "create" \in session.elsewhere
          /\ \E i \in session.names :
               /\ world[i] = "none"
               /\ world' = [world EXCEPT ![i] = "running"]
               /\ reborn' = reborn \cup {i}
          /\ UNCHANGED <<daemon, build, passwords, flight>>
       \/ /\ "remove" \in session.elsewhere
          /\ \E i \in Names : Vanish(i, flight)
          /\ UNCHANGED <<daemon, build, reborn>>
       \/ /\ daemon = "up" /\ "down" \in session.elsewhere /\ daemon' = "down"
          /\ UNCHANGED <<world, build, passwords, flight, reborn>>
       \/ /\ daemon = "down" /\ "up" \in session.elsewhere /\ daemon' = "up"
          /\ UNCHANGED <<world, build, passwords, flight, reborn>>
       \/ /\ "upgrade" \in session.elsewhere /\ build = "same" /\ build' = "newer"
          /\ UNCHANGED <<world, daemon, passwords, flight, reborn>>
    /\ UNCHANGED <<session, phase, view, list, cursor, fetched, note, dialogs, picked, leaked, astray>>

Next == Keyboard \/ Update \/ Serve \/ Outside

Spec == Init /\ [][Next]_vars

\* The runtime runs every command and the loop takes every message; nothing is
\* assumed of the user, nor of what happens elsewhere.
FairSpec ==
    /\ Spec
    /\ WF_vars(TickMsg) /\ WF_vars(InstancesMsg) /\ WF_vars(PasswordMsg)
    /\ WF_vars(ActionDoneMsg) /\ WF_vars(ConnStringMsg) /\ WF_vars(PullMsg)
    /\ WF_vars(SpinMsg) /\ WF_vars(CreatedMsg) /\ WF_vars(LogMsg)
    /\ WF_vars(UpdateCheckedMsg) /\ WF_vars(ShutdownDoneMsg) /\ WF_vars(StaleMsg)
    /\ WF_vars(ServeList) /\ WF_vars(ServePassword) /\ WF_vars(ServeAction)
    /\ WF_vars(ServeRemove) /\ WF_vars(ServeCreate) /\ WF_vars(ServeShutdown)
-----------------------------------------------------------------------------
TypeOK ==
    /\ session \in Sessions
    /\ phase \in {"up", "quit", "dead"}
    /\ view \in {"list", "logs", "create", "destroy", "conn", "quit", "update"}
    /\ list \in [Names -> Status] /\ cursor \in 0..LastRow(list)
    /\ fetched \in {"loading", "ok", "unreachable"}
    /\ passwords \in [Names -> {"none", "right", "stale"}]
    /\ note \in BOOLEAN
    /\ destroy \in [id : Names \cup {0}, wipe : BOOLEAN, step : {"choose", "typeName", "working"}]
    /\ form \in [step : {"engine", "version", "name", "port", "restart", "submitting"},
                id : Names \cup {0}, ch : {"nil", "open", "closed"}]
    /\ logs \in [live : BOOLEAN, over : BOOLEAN, closed : BOOLEAN]
    /\ shutdown \in {"nil", "asking", "working", "failed"}
    /\ update \in {"nil", "checking", "done"}
    /\ DOMAIN flight \subseteq Asking \cup Answers
    /\ world \in [Names -> Status]
    /\ daemon \in {"up", "down"} /\ build \in {"same", "newer"}
    /\ picked \in Names \cup {0} /\ reborn \subseteq Names
    /\ leaked \in BOOLEAN /\ astray \in BOOLEAN

\* A removal is of the instance that was under the cursor when d was pressed,
\* however the list has moved since, and data is wiped only of an instance whose
\* name was typed (destroy.go:14-26, 46-49).
RemovesWhatWasPicked ==
    [][\A c \in DOMAIN flight' \ DOMAIN flight :
          c.tag = "remove" => c.id = picked /\ (c.wipe => c.typed = picked)]_vars

\* While a create runs its own form waits for the answer, so the answer, the
\* error and the progress are shown where they belong (create.go:171-172,
\* model.go:335-345); a connection string that arrives late may take the form
\* off the screen.
CreateOnScreen ==
    ~astray =>
      /\ \A c \in InFlight({"create", "createdMsg"}) :
           c.of = "now" /\ form.step = "submitting" /\ view = "create" /\ flight[c] = 1
      /\ Cardinality(InFlight({"create", "createdMsg"})) <= 1

\* The answer to a shutdown finds the quit screen that asked, so a failure is
\* shown and the nil state is never written to (model.go:315-329); likewise.
ShutdownAnswered ==
    ~astray =>
      /\ Running({"shutdown", "shutdownDoneMsg"}) => shutdown = "working" /\ view = "quit"
      /\ phase # "dead"

\* A log stream that is open is on the screen and is read: none is left behind
\* another view or replaced while it is open (logs.go:27-31, 145), except by a
\* string that strays in, and until the end of it has been seen somebody waits
\* for its next line (model.go:347-353).
StreamsTended ==
    /\ ~astray => ~leaked /\ (logs.live => view = "logs")
    /\ logs.live /\ ~logs.over => [tag |-> "logs", of |-> "now"] \in DOMAIN flight

\* The password shown is that of the instance there is, though instances are
\* destroyed, here or elsewhere, and created again under one name
\* (model.go:180-210).
PasswordRight ==
    ~astray => \A i \in Names : passwords[i] = "stale" /\ world[i] # "none" => i \in reborn

\* The list view comes to show what the daemon has, or that it is down, however
\* old the answers that arrive meanwhile are and wherever the user has been.
Onlooker == phase = "up" /\ view = "list"
Quiet    == <>[][UNCHANGED <<world, daemon>>]_vars
ListCatchesUp ==
    Quiet /\ <>[]Onlooker =>
      <>[](IF daemon = "up" THEN fetched = "ok" /\ list = world ELSE Screen = "unreachable")
=============================================================================

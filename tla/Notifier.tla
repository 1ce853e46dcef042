------------------------------ MODULE Notifier ------------------------------
(***************************************************************************)
(* How a status bar learns that instances changed: the daemon's notifier   *)
(* (internal/notify), which is called by every save of the manager, and    *)
(* Waybar's module, which on its signal runs dbctl status.  Listing        *)
(* reconciles, and reconciling may save, so the answer to a signal may     *)
(* itself be a reason for the next one.                                    *)
(*                                                                         *)
(* The state of the instances is a number that every change makes larger;  *)
(* what matters is only which of its values somebody has seen.             *)
(***************************************************************************)
EXTENDS Naturals

CONSTANT Scenes     \* what is there: a Waybar, a shell widget and what the user
                    \* does with it, what happens to the daemon and containers,
                    \* and bounds on how much changes

ASSUME NotifierAssumption ==
    \A s \in Scenes :
      /\ s.waybar \in BOOLEAN /\ s.widget \in BOOLEAN
      /\ s.verbs \subseteq {"toggle", "create", "copy", "daemon"}
      /\ s.events \subseteq {"act", "exit", "crash", "leftover", "down", "tick"}
      /\ s.changes \in Nat

VARIABLES
    scene,      \* one of Scenes, for good
    up,         \* the daemon runs
    world,      \* the state of the instances
    saved,      \* the state that was last saved, and announced
    drift,      \* what a pass reports: nothing, something it repairs ("once"), or
                \* a missing or crashed instance, which every pass reports
    pending,    \* n.pending
    armed,      \* its timer runs
    sending,    \* signals about to be sent
    bar,        \* Waybar's module: off, idle, asking, answered
    woken,      \* a signal has arrived that it has not acted on
    answer,     \* what dbctl status printed
    shown,      \* what the bar shows
    missed      \* history: the daemon has been down

Offline == 0
States  == 1..(1 + scene.changes)

notifier == <<pending, armed, sending>>
manager  == <<world, saved, drift>>
barState == <<bar, woken, answer, shown>>
nvars    == <<scene, up, manager, notifier, barState, missed>>

NotifierInit ==
    /\ scene \in Scenes
    /\ up = TRUE /\ world = 1 /\ saved = 1 /\ drift = "none"
    /\ pending = FALSE /\ armed = FALSE /\ sending = 0
    /\ bar = "off" /\ woken = FALSE /\ answer = Offline /\ shown = Offline
    /\ missed = FALSE

May(event) == event \in scene.events /\ world < 1 + scene.changes

\* Changed: one timer for a burst of changes.
Changed == pending' = TRUE /\ armed' = (armed \/ ~pending)

\* A reconcile pass saves when it has something to report.
SlipAlways == TRUE
Drifted == drift # "none"
Pass ==
    /\ drift' = IF drift = "once" THEN "none" ELSE drift
    /\ saved' = IF Drifted THEN world ELSE saved
    /\ IF Drifted THEN Changed ELSE UNCHANGED <<pending, armed>>

\* A start, a stop, a create, a removal: saved, and announced.
Act ==
    /\ world' = world + 1 /\ saved' = world + 1
    /\ drift' \in {drift, "none"}
    /\ Changed

SomeoneActs ==
    /\ up /\ May("act") /\ Act
    /\ UNCHANGED <<scene, up, sending, barState, missed>>

\* A container ends by itself or is removed; a clean end is no drift.
ContainerChanges ==
    /\ \/ May("exit") /\ UNCHANGED drift
       \/ May("crash") /\ drift' = "stuck"
       \/ May("leftover") /\ drift' = IF drift = "none" THEN "once" ELSE drift
    /\ world' = world + 1
    /\ UNCHANGED <<scene, up, saved, notifier, barState, missed>>

Supervise ==
    /\ up /\ "tick" \in scene.events /\ Pass
    /\ UNCHANGED <<scene, up, world, sending, barState, missed>>

\* The timer's callback: pending is reset under the lock, the signal is sent
\* without it.
SlipLatched == pending
Reset == FALSE
Fire ==
    /\ armed /\ sending < 2
    /\ armed' = FALSE /\ pending' = Reset /\ sending' = sending + 1
    /\ UNCHANGED <<scene, up, manager, barState, missed>>
Send ==
    /\ sending > 0 /\ sending' = sending - 1
    /\ woken' = (woken \/ bar # "off")
    /\ UNCHANGED <<scene, up, manager, pending, armed, bar, answer, shown, missed>>

\* The daemon ends: notifier.Stop takes the pending signal with it.
Down ==
    /\ up /\ "down" \in scene.events /\ ~missed
    /\ up' = FALSE /\ missed' = TRUE
    /\ pending' = FALSE /\ armed' = FALSE /\ sending' = 0
    /\ UNCHANGED <<scene, manager, barState>>
Up ==
    /\ ~up /\ up' = TRUE /\ Pass
    /\ UNCHANGED <<scene, world, sending, barState, missed>>

(***************************************************************************)
(* Waybar                                                                  *)
(***************************************************************************)
BarStarts ==
    /\ scene.waybar /\ bar = "off" /\ bar' = "asking"
    /\ UNCHANGED <<scene, up, manager, notifier, woken, answer, shown, missed>>
BarWakes ==
    /\ bar = "idle" /\ woken
    /\ bar' = "asking" /\ woken' = FALSE
    /\ UNCHANGED <<scene, up, manager, notifier, answer, shown, missed>>
\* Its interval, the long fallback.
BarPolls ==
    /\ "tick" \in scene.events /\ bar = "idle" /\ bar' = "asking"
    /\ UNCHANGED <<scene, up, manager, notifier, woken, answer, shown, missed>>

\* dbctl status: the list, after a pass; or the daemon cannot be reached.
Asked == /\ answer' = IF up THEN world ELSE Offline
         /\ IF up THEN Pass ELSE UNCHANGED <<drift, saved, pending, armed>>
BarAsks ==
    /\ bar = "asking" /\ bar' = "answered" /\ Asked
    /\ UNCHANGED <<scene, up, world, sending, woken, shown, missed>>
BarShows ==
    /\ bar = "answered" /\ bar' = "idle" /\ shown' = answer /\ answer' = Offline
    /\ UNCHANGED <<scene, up, manager, notifier, woken, missed>>

NotifierNext ==
    \/ SomeoneActs \/ ContainerChanges \/ Supervise \/ Fire \/ Send \/ Down \/ Up
    \/ BarStarts \/ BarWakes \/ BarPolls \/ BarAsks \/ BarShows
-----------------------------------------------------------------------------
\* A change that was announced reaches the bar: when no signal is on its way and
\* the bar has nothing to do, it shows the last state that was saved, or a later
\* one, whatever changed while a signal was being sent or the bar was asking
\* (notify.go:63-83); unless the daemon ended meanwhile.
NoSilentChange ==
    bar = "idle" /\ ~woken /\ ~armed /\ sending = 0 /\ ~missed => shown >= saved

=============================================================================

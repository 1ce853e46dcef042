------------------------------ MODULE WidgetMC ------------------------------
(* Scenes for TLC: what the user does with the widget, apart from Waybar,   *)
(* and both bars beside a daemon that changes, drifts, ends and returns.    *)
EXTENDS Widget

Scene(waybar, wid, verbs, events, changes) ==
    [waybar |-> waybar, widget |-> wid, verbs |-> verbs, events |-> events, changes |-> changes]

Signalled  == Scene(TRUE, FALSE, {}, {"act", "exit", "crash", "leftover", "down", "tick"}, 3)
Beside     == Scene(TRUE, TRUE, {}, {"act", "leftover", "down", "tick"}, 2)
Using      == Scene(FALSE, TRUE, {"toggle", "create", "copy"}, {"exit"}, 2)
Restarting == Scene(FALSE, TRUE, {"toggle", "daemon"}, {"down"}, 1)

AllScenes == {Signalled, Beside, Using, Restarting}
OneBar    == {Scene(TRUE, FALSE, {}, {"crash"}, 1)}    \* no timers but the notifier's
=============================================================================

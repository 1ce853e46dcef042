---------------------------- MODULE WidgetProofs ----------------------------
(***************************************************************************)
(* What the run of WidgetMC shows for four scenes, for any: the types, and *)
(* that a change that was announced reaches the bar.                       *)
(*                                                                         *)
(* NoSilentChange is about a bar with nothing to do.  The invariant that   *)
(* carries it follows the change on its way there: while the bar is behind *)
(* what was saved, a timer runs, a signal is about to be sent, or the bar  *)
(* has one to act on; a bar that is about to ask will be told.             *)
(*                                                                         *)
(* Of the widget only what it does to the notifier matters here: it makes  *)
(* the daemon act, pass or start, as others do.                            *)
(***************************************************************************)
EXTENDS Widget, TLAPS

\* The notifier's part of the types, and the widget's.
NotifierOK ==
    /\ scene \in Scenes
    /\ world \in States /\ saved \in States /\ saved <= world
    /\ drift \in {"none", "once", "stuck"}
    /\ sending \in 0..2
    /\ bar \in {"off", "idle", "asking", "answered"}
    /\ answer \in States \cup {Offline} /\ shown \in States \cup {Offline}

FlagsOK ==
    /\ up \in BOOLEAN /\ woken \in BOOLEAN
    /\ pending \in BOOLEAN /\ armed \in BOOLEAN /\ pending = armed

WidgetOK ==
    /\ list \in {"idle", "asked", "answered"}
    /\ printed \in States \cup {Offline} /\ view \in States \cup {Offline}
    /\ run \in [Verbs -> {"off", "running", "done"}]
    /\ status \in {"", "toggle", "create", "copy", "daemon"}
    /\ settle \in 0..Ticks

WidgetFlagsOK == error \in BOOLEAN /\ fade \in BOOLEAN

\* A signal is on its way to the bar.
Coming == woken \/ armed \/ sending > 0

Heard == ~missed =>
    /\ up
    /\ bar = "idle" => shown >= saved \/ Coming
    /\ bar = "answered" => answer >= saved \/ Coming

IInv == NotifierOK /\ FlagsOK /\ WidgetOK /\ WidgetFlagsOK /\ Heard

\* A scene bounds how much changes; there is a first state.
LEMMA SceneType ==
    ASSUME scene \in Scenes
    PROVE  scene.changes \in Nat /\ 1 \in States
<1>1. scene.changes \in Nat BY NotifierAssumption
<1> QED BY <1>1 DEF States

\* What the settle timer counts down.
LEMMA TicksType ==
    /\ 0 \in 0..Ticks /\ Ticks \in 0..Ticks
    /\ \A n \in 0..Ticks : n > 0 => n - 1 \in 0..Ticks
BY WidgetAssumption

-----------------------------------------------------------------------------
(***************************************************************************)
(* What the widget does to the notifier                                    *)
(***************************************************************************)

\* It acts, or makes the daemon pass or start, or leaves it all alone.
Felt ==
    \/ UNCHANGED nvars
    \/ up /\ world < 1 + scene.changes /\ Act /\ UNCHANGED <<scene, up, sending, barState, missed>>
    \/ Up
    \/ up /\ Pass /\ UNCHANGED <<scene, up, world, sending, barState, missed>>

\* Nothing the widget does touches the notifier in another way.
LEMMA WidgetFelt ==
    ASSUME WidgetNext
    PROVE  Felt
<1>1. ASSUME NEW v \in Verbs, Works(v) PROVE Felt
  <2>1. CASE v \in {"toggle", "create"} BY <1>1, <2>1 DEF Works, Felt
  <2>2. CASE v = "copy" BY <1>1, <2>2 DEF Works, Felt
  <2>3. CASE v = "daemon" BY <1>1, <2>3 DEF Works, Felt
  <2> QED BY <2>1, <2>2, <2>3 DEF Verbs
<1>2. ASSUME ListAsks PROVE Felt
  BY <1>2 DEF ListAsks, Felt, nvars, manager, notifier
<1>3. ASSUME Toggle \/ Create \/ Copy \/ StartDaemon PROVE Felt
  BY <1>3 DEF Toggle, Create, Copy, StartDaemon, Ask, Felt
<1>4. ASSUME CreateLine \/ ActionExits \/ CreateExits \/ CopyExits \/ DaemonExits PROVE Felt
  BY <1>4 DEF CreateLine, ActionExits, CreateExits, CopyExits, DaemonExits, Felt
<1>5. ASSUME SettleTick \/ FadeTick \/ RefreshTick \/ ListExits PROVE Felt
  BY <1>5 DEF SettleTick, FadeTick, RefreshTick, ListExits, Felt
<1> QED BY <1>1, <1>2, <1>3, <1>4, <1>5 DEF WidgetNext

\* Every step keeps the notifier's types.
LEMMA NotifierKept ==
    ASSUME NotifierOK, NotifierNext \/ Felt
    PROVE  NotifierOK'
<1>0. scene.changes \in Nat BY SceneType DEF NotifierOK
<1> USE DEF notifier, manager, barState, nvars
<1>1. ASSUME SomeoneActs PROVE NotifierOK'
  BY <1>1, <1>0 DEF SomeoneActs, Act, Changed, May, NotifierOK, States, Offline
<1>2. ASSUME ContainerChanges PROVE NotifierOK'
  BY <1>2, <1>0 DEF ContainerChanges, May, NotifierOK, States, Offline
<1>3. ASSUME Supervise PROVE NotifierOK'
  BY <1>3, <1>0 DEF Supervise, Pass, Changed, Drifted, NotifierOK, States, Offline
<1>4. ASSUME Fire PROVE NotifierOK'
  BY <1>4, <1>0 DEF Fire, Reset, NotifierOK, States, Offline
<1>5. ASSUME Send PROVE NotifierOK'
  BY <1>5, <1>0 DEF Send, NotifierOK, States, Offline
<1>6. ASSUME Down PROVE NotifierOK'
  BY <1>6, <1>0 DEF Down, NotifierOK, States, Offline
<1>7. ASSUME Up PROVE NotifierOK'
  BY <1>7, <1>0 DEF Up, Pass, Changed, Drifted, NotifierOK, States, Offline
<1>8. ASSUME BarStarts PROVE NotifierOK'
  BY <1>8, <1>0 DEF BarStarts, NotifierOK, States, Offline
<1>9. ASSUME BarWakes PROVE NotifierOK'
  BY <1>9, <1>0 DEF BarWakes, NotifierOK, States, Offline
<1>10. ASSUME BarPolls PROVE NotifierOK'
  BY <1>10, <1>0 DEF BarPolls, NotifierOK, States, Offline
<1>11. ASSUME BarAsks PROVE NotifierOK'
  BY <1>11, <1>0 DEF BarAsks, Asked, Pass, Changed, Drifted, NotifierOK, States, Offline
<1>12. ASSUME BarShows PROVE NotifierOK'
  BY <1>12, <1>0 DEF BarShows, NotifierOK, States, Offline
<1>13. ASSUME Felt, ~Up PROVE NotifierOK'
  BY <1>13, <1>0 DEF Felt, Act, Pass, Changed, Drifted, NotifierOK, States, Offline
<1> QED BY <1>1, <1>2, <1>3, <1>4, <1>5, <1>6, <1>7, <1>8, <1>9, <1>10, <1>11, <1>12, <1>13
     DEF NotifierNext

\* A change arms the timer, a pass too or it does nothing.
LEMMA ChangedArms ==
    ASSUME FlagsOK, Changed \/ Pass
    PROVE  \/ pending' = TRUE /\ armed' = TRUE
           \/ UNCHANGED <<pending, armed>>
<1>1. CASE Changed BY <1>1 DEF Changed, FlagsOK
<1>2. CASE Pass BY <1>1, <1>2 DEF Pass, Changed, FlagsOK
<1> QED BY <1>1, <1>2

\* The timer runs exactly when a change is pending.
LEMMA FlagsKept ==
    ASSUME FlagsOK, NotifierNext \/ Felt
    PROVE  FlagsOK'
<1> USE DEF notifier, manager, barState, nvars
<1>1. ASSUME SomeoneActs PROVE FlagsOK'
  BY <1>1, ChangedArms DEF SomeoneActs, Act, May, FlagsOK
<1>2. ASSUME ContainerChanges PROVE FlagsOK'
  BY <1>2, ChangedArms DEF ContainerChanges, May, FlagsOK
<1>3. ASSUME Supervise PROVE FlagsOK'
  BY <1>3, ChangedArms DEF Supervise, FlagsOK
<1>4. ASSUME Fire PROVE FlagsOK'
  BY <1>4, ChangedArms DEF Fire, Reset, FlagsOK
<1>5. ASSUME Send PROVE FlagsOK'
  BY <1>5, ChangedArms DEF Send, FlagsOK
<1>6. ASSUME Down PROVE FlagsOK'
  BY <1>6, ChangedArms DEF Down, FlagsOK
<1>7. ASSUME Up PROVE FlagsOK'
  BY <1>7, ChangedArms DEF Up, FlagsOK
<1>8. ASSUME BarStarts PROVE FlagsOK'
  BY <1>8, ChangedArms DEF BarStarts, FlagsOK
<1>9. ASSUME BarWakes PROVE FlagsOK'
  BY <1>9, ChangedArms DEF BarWakes, FlagsOK
<1>10. ASSUME BarPolls PROVE FlagsOK'
  BY <1>10, ChangedArms DEF BarPolls, FlagsOK
<1>11. ASSUME BarAsks PROVE FlagsOK'
  BY <1>11, ChangedArms DEF BarAsks, Asked, FlagsOK
<1>12. ASSUME BarShows PROVE FlagsOK'
  BY <1>12, ChangedArms DEF BarShows, FlagsOK
<1>13. ASSUME Felt, ~Up PROVE FlagsOK'
  BY <1>13, ChangedArms DEF Felt, Act, FlagsOK
<1> QED BY <1>1, <1>2, <1>3, <1>4, <1>5, <1>6, <1>7, <1>8, <1>9, <1>10, <1>11, <1>12, <1>13
     DEF NotifierNext

\* Every step keeps a signal coming for a bar that is behind.
LEMMA HeardKept ==
    ASSUME NotifierOK, FlagsOK, Heard, NotifierNext \/ Felt
    PROVE  Heard'
<1>0. scene.changes \in Nat BY SceneType DEF NotifierOK
<1> USE DEF notifier, manager, barState, nvars
<1>1. ASSUME SomeoneActs PROVE Heard'
  BY <1>1, <1>0 DEF SomeoneActs, Act, Changed, May, NotifierOK, FlagsOK, Heard, Coming, States
<1>2. ASSUME ContainerChanges PROVE Heard'
  BY <1>2, <1>0 DEF ContainerChanges, May, NotifierOK, FlagsOK, Heard, Coming, States
<1>3. ASSUME Supervise PROVE Heard'
  BY <1>3, <1>0 DEF Supervise, Pass, Changed, Drifted, NotifierOK, FlagsOK, Heard, Coming, States
<1>4. ASSUME Fire PROVE Heard'
  BY <1>4, <1>0 DEF Fire, Reset, NotifierOK, FlagsOK, Heard, Coming, States
<1>5. ASSUME Send PROVE Heard'
  BY <1>5, <1>0 DEF Send, NotifierOK, FlagsOK, Heard, Coming, States
<1>6. ASSUME Down PROVE Heard'
  BY <1>6, <1>0 DEF Down, NotifierOK, FlagsOK, Heard, Coming, States
<1>7. ASSUME Up PROVE Heard'
  BY <1>7, <1>0 DEF Up, Pass, Changed, Drifted, NotifierOK, FlagsOK, Heard, Coming, States
<1>8. ASSUME BarStarts PROVE Heard'
  BY <1>8, <1>0 DEF BarStarts, NotifierOK, FlagsOK, Heard, Coming, States
<1>9. ASSUME BarWakes PROVE Heard'
  BY <1>9, <1>0 DEF BarWakes, NotifierOK, FlagsOK, Heard, Coming, States
<1>10. ASSUME BarPolls PROVE Heard'
  BY <1>10, <1>0 DEF BarPolls, NotifierOK, FlagsOK, Heard, Coming, States
<1>11. ASSUME BarAsks PROVE Heard'
  BY <1>11, <1>0 DEF BarAsks, Asked, Pass, Changed, Drifted, NotifierOK, FlagsOK, Heard, Coming,
     States
<1>12. ASSUME BarShows PROVE Heard'
  BY <1>12, <1>0 DEF BarShows, NotifierOK, FlagsOK, Heard, Coming, States
<1>13. ASSUME Felt, ~Up PROVE Heard'
  BY <1>13, <1>0 DEF Felt, Act, Pass, Changed, Drifted, NotifierOK, FlagsOK, Heard, Coming, States
<1> QED BY <1>1, <1>2, <1>3, <1>4, <1>5, <1>6, <1>7, <1>8, <1>9, <1>10, <1>11, <1>12, <1>13
     DEF NotifierNext

\* Every step keeps the widget's types.
LEMMA WidgetKept ==
    ASSUME NotifierOK, WidgetOK, WidgetNext \/ UNCHANGED widget, scene' = scene
    PROVE  WidgetOK'
<1>0. States' = States BY DEF States
<1> USE TicksType DEF nvars, widget, WidgetOK
<1>1. ASSUME Toggle PROVE WidgetOK'
  BY <1>1, <1>0 DEF Toggle, Ask, Verbs
<1>2. ASSUME Create PROVE WidgetOK'
  BY <1>2, <1>0 DEF Create, Ask, Verbs
<1>3. ASSUME Copy PROVE WidgetOK'
  BY <1>3, <1>0 DEF Copy, Ask, Verbs
<1>4. ASSUME StartDaemon PROVE WidgetOK'
  BY <1>4, <1>0 DEF StartDaemon, Ask, Verbs
<1>5. ASSUME CreateLine PROVE WidgetOK'
  BY <1>5, <1>0 DEF CreateLine
<1>6. ASSUME ActionExits PROVE WidgetOK'
  BY <1>6, <1>0 DEF ActionExits, Exits, Well, Refresh, Verbs
<1>7. ASSUME CreateExits PROVE WidgetOK'
  BY <1>7, <1>0 DEF CreateExits, Exits, Well, Refresh, Verbs
<1>8. ASSUME CopyExits PROVE WidgetOK'
  BY <1>8, <1>0 DEF CopyExits, Exits, Well, Verbs
<1>9. ASSUME DaemonExits PROVE WidgetOK'
  BY <1>9, <1>0 DEF DaemonExits, Exits, Well, Verbs
<1>10. ASSUME SettleTick PROVE WidgetOK'
  BY <1>10, <1>0 DEF SettleTick, Refresh, Cleared, Creating
<1>11. ASSUME FadeTick PROVE WidgetOK'
  BY <1>11, <1>0 DEF FadeTick, Cleared
<1>12. ASSUME RefreshTick PROVE WidgetOK'
  BY <1>12, <1>0 DEF RefreshTick, Refresh
<1>13. ASSUME ListAsks PROVE WidgetOK'
  BY <1>13, <1>0 DEF ListAsks, NotifierOK
<1>14. ASSUME ListExits PROVE WidgetOK'
  BY <1>14, <1>0 DEF ListExits, Listed
<1>15. ASSUME NEW v \in Verbs, Works(v) PROVE WidgetOK'
  BY <1>15, <1>0 DEF Works, Verbs
<1>16. ASSUME UNCHANGED widget PROVE WidgetOK'
  BY <1>16, <1>0
<1> QED BY <1>1, <1>2, <1>3, <1>4, <1>5, <1>6, <1>7, <1>8, <1>9, <1>10, <1>11, <1>12, <1>13,
     <1>14, <1>15, <1>16 DEF WidgetNext

\* So do the widget's flags.
LEMMA WidgetFlagsKept ==
    ASSUME WidgetFlagsOK, WidgetNext \/ UNCHANGED widget
    PROVE  WidgetFlagsOK'
<1> USE DEF WidgetFlagsOK
<1>1. CASE Toggle \/ Create \/ Copy \/ StartDaemon
  BY <1>1 DEF Toggle, Create, Copy, StartDaemon, Ask
<1>2. CASE \E v \in Verbs : Works(v) BY <1>2 DEF Works
<1>3. CASE CreateLine \/ ActionExits \/ CreateExits \/ CopyExits \/ DaemonExits
  BY <1>3 DEF CreateLine, ActionExits, CreateExits, CopyExits, DaemonExits
<1>4. CASE SettleTick \/ FadeTick \/ RefreshTick \/ ListAsks \/ ListExits
  BY <1>4 DEF SettleTick, FadeTick, RefreshTick, ListAsks, ListExits
<1>5. CASE UNCHANGED widget BY <1>5 DEF widget
<1> QED BY <1>1, <1>2, <1>3, <1>4, <1>5 DEF WidgetNext

-----------------------------------------------------------------------------
\* A scene is one of Scenes for good.
LEMMA SceneKept ==
    ASSUME NotifierNext \/ Felt
    PROVE  scene' = scene
<1> USE DEF nvars
<1>1. ASSUME Felt PROVE scene' = scene BY <1>1 DEF Felt, Up
<1> QED BY <1>1 DEF NotifierNext, SomeoneActs, ContainerChanges, Supervise, Fire, Send, Down, Up,
                    BarStarts, BarWakes, BarPolls, BarAsks, BarShows

\* Nothing runs, and the bar is off.
LEMMA InitHolds ==
    ASSUME Init
    PROVE  IInv
<1>1. NotifierOK
  <2>1. scene \in Scenes /\ world = 1 /\ saved = 1 /\ answer = Offline /\ shown = Offline
    BY DEF Init, NotifierInit
  <2>2. drift = "none" /\ sending = 0 /\ bar = "off" BY DEF Init, NotifierInit
  <2>3. 1 \in States BY <2>1, SceneType
  <2>4. saved <= world BY <2>1
  <2> QED BY <2>1, <2>2, <2>3, <2>4 DEF NotifierOK
<1>2. WidgetOK BY TicksType DEF WidgetOK, Init
<1>3. FlagsOK /\ WidgetFlagsOK /\ Heard BY DEF FlagsOK, WidgetFlagsOK, Heard, Init, NotifierInit
<1> QED BY <1>1, <1>2, <1>3 DEF IInv

\* In every behaviour a bar that is behind what was saved has a signal coming.
THEOREM Invariance == Spec => []IInv
<1>1. ASSUME IInv, [Next]_vars PROVE IInv'
  <2>1. (NotifierNext /\ UNCHANGED widget) \/ (Felt /\ (WidgetNext \/ UNCHANGED widget))
    BY <1>1, WidgetFelt DEF Next, vars, Felt
  <2>2. NotifierOK' /\ FlagsOK' BY <1>1, <2>1, NotifierKept, FlagsKept DEF IInv
  <2>3. WidgetOK' /\ WidgetFlagsOK'
    BY <1>1, <2>1, SceneKept, WidgetKept, WidgetFlagsKept DEF IInv
  <2>4. Heard' BY <1>1, <2>1, HeardKept DEF IInv
  <2> QED BY <2>2, <2>3, <2>4 DEF IInv
<1> QED BY InitHolds, <1>1, PTL DEF Spec

\* The bar, the notifier and the widget are always in a state of their types; in
\* particular the notifier's timer runs exactly when a change is pending.
THEOREM TypeCorrect == Spec => []TypeOK
<1>1. IInv => TypeOK BY DEF IInv, NotifierOK, FlagsOK, WidgetOK, WidgetFlagsOK, TypeOK
<1> QED BY <1>1, Invariance, PTL

\* A change that was announced reaches the bar, whatever changed while a signal
\* was being sent or the bar was asking (notify.go:63-83).
THEOREM ChangesAreHeard == Spec => []NoSilentChange
<1>1. IInv => NoSilentChange BY DEF IInv, NotifierOK, FlagsOK, Heard, Coming, NoSilentChange
<1> QED BY <1>1, Invariance, PTL

=============================================================================

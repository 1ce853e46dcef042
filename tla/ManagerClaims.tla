---------------------------- MODULE ManagerClaims ----------------------------
(***************************************************************************)
(* What the documentation says of the daemon without reserve, and the code *)
(* does not do: each property is broken through one of the windows module  *)
(* Manager records, and each names the window, so that a counterexample    *)
(* shows that this window alone is enough.                                 *)
(***************************************************************************)
EXTENDS Manager

(* An instance the user stopped is never resurrected. The *Instance is     *)
(* looked up before the bracket opens (manager.go:723-730), so a reconcile *)
(* pass may replace it in between; the stop is then written to an object   *)
(* nobody reads, and supervision starts the instance again.                *)
StopSurvivesPass ==
    windows \subseteq {"detached"} => \A i \in Ids :
        asked[i] = {"stopped"} /\ container[i] # None
            => container[i].state = "stopped"

(* The same. A restore works through a copy taken before its loop          *)
(* (manager.go:880-913), and a stop that comes in between is undone.       *)
StopSurvivesRestore ==
    windows \subseteq {"restore"} => \A i \in Ids :
        asked[i] = {"stopped"} /\ container[i] # None
            => container[i].state = "stopped"

(* Whatever committed has saved its own state. save copies the map under   *)
(* mu and writes outside it (manager.go:338-348): of two saves the one     *)
(* that copied first may write last, and what the other one saved is gone. *)
CommittedIsSaved ==
    /\ windows \subseteq {"reorder"} /\ phase = "up"
    /\ \A t \in Threads : pc[t] \notin Bracketed \cup SavePoints
    => \A i \in Ids : Lasting(file[i]) = Lasting(instances[i])

(* A pass overtaken by a removal is discarded. gen moves before the file   *)
(* is written (manager.go:345-348): a pass that starts in between reads    *)
(* the old file, sees gen stand still, and the destroyed instance is back. *)
DestroyedStaysDestroyed ==
    windows \subseteq {"load"} => \A i \in Ids :
        phase = "up" /\ asked[i] = {"gone"} => instances[i] = None

(* A shutdown stops every running instance. Supervision is not stopped     *)
(* first: while Suspend works, or between its end and the end of the       *)
(* process, a restore finds instances that are suspended, and starts them  *)
(* again.                                                                  *)
ShutdownLeavesNothing ==
    /\ \E t \in Threads : pc[t] = "quit"
    /\ windows \subseteq {"quit"}
    => \A i \in Ids : container[i] # None => container[i].state = "stopped"

=============================================================================

---------------------------- MODULE ManagerLiveMC ----------------------------
(***************************************************************************)
(* Liveness of Manager on two instances of its environment: what is asked  *)
(* for and what breaks is bounded here, never what the daemon does with it.*)
(***************************************************************************)
EXTENDS ManagerMC

VARIABLE scene

(* shutdown: one client creates both instances, the other shuts down, once *)
(* both are recorded, while supervision passes and restores.  The daemon   *)
(* does not crash, so nobody is let off waiting.                           *)
(* steady: two clients ask for whatever they like about one instance, for  *)
(* ever, while its engine exits and the daemon crashes.                    *)
Scenes == {"shutdown", "steady"}

Asks(t) == pc[t] = "idle" /\ pc'[t] # "idle"
InShutdown ==
    /\ Asks(c1) => op'[c1] = "create" /\ (target'[c1] = 2 => instances[1] # None)
    /\ Asks(c2) => op'[c2] = "suspend" /\ \A i \in Ids : instances[i] # None
    /\ ~Crash /\ \A i \in Ids : ~ContainerExits(i)
InSteady == \A t \in Clients : Asks(t) => op'[t] # "suspend" /\ target'[t] = 1
Environs == (scene = "shutdown" => InShutdown) /\ (scene = "steady" => InSteady)

(* Only steps without fairness are kept out, so every fair behaviour of    *)
(* these environments is among the behaviours searched.                    *)
LiveSpec ==
    /\ Init /\ scene \in Scenes
    /\ [][UNCHANGED scene /\ Next /\ Environs]_<<vars, scene>>
    /\ Fairness

(* Everything but the history, which guards nothing, and which none of the *)
(* properties checked here reads: states that differ in it go on alike.    *)
WithoutHistory == <<scene, podman, file, phase, instances, lock, inflight, moved, pc,
                    locals, view, live, saving>>

=============================================================================

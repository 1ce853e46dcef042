----------------------------- MODULE DbInstance -----------------------------
(***************************************************************************)
(* The values the daemon works with: an instance record as it is kept in   *)
(* memory and in instances.toml, a container as Podman reports it, and the *)
(* rules that read one from the other.  Everything here is constant-level. *)
(*                                                                         *)
(* Abstractions.  Engine, version, image, environment, port and data       *)
(* directory are fixed per id and left out.  An exit code is 0 (clean) or  *)
(* 1 (any other code), the only distinction the code makes.  Podman's      *)
(* mapState never yields StateFailed, so the status "error" is not used.   *)
(* Entries are complete: withDefaults, which gives an entry of an older    *)
(* file a policy and a desired state, has nothing to add to them.          *)
(***************************************************************************)
EXTENDS Integers

CONSTANT None  \* an absent instance, container, lock owner, request or target

Status        == {"running", "stopped", "creating", "missing"}
RestartPolicy == {"no", "on-failure", "always"}
DesiredState  == {"running", "stopped"}
ExitCode      == {0, 1}

Instance == [status : Status, desired : DesiredState, restart : RestartPolicy,
             suspended : BOOLEAN, exit : ExitCode]

(* restart and desired are the labels stamped when the container was made: *)
(* later changes of policy or desired state do not reach them.             *)
Container == [state : {"running", "stopped"}, exit : ExitCode,
              restart : RestartPolicy, desired : DesiredState]

ASSUME NoneAssumption == None \notin Instance /\ None \notin Container

-----------------------------------------------------------------------------

(* Wrong variants of ShouldAutoStart, which nothing uses; see Manager.     *)
SlipIgnoreStop(i) ==
    \/ i.suspended
    \/ i.restart = "always"
    \/ i.restart = "on-failure" /\ i.exit # 0

SlipPolicyFirst(i) ==
    /\ i.desired = "running"
    /\ i.restart = "always" \/ (i.restart = "on-failure" /\ i.exit # 0)

SlipCleanExit(i) ==
    /\ i.desired = "running"
    /\ i.suspended \/ (i.restart # "no" /\ i.exit # 0)

(* Whether the daemon brings an instance back on its own.                  *)
ShouldAutoStart(i) ==
    /\ i.desired = "running"
    /\ \/ i.suspended
       \/ i.restart = "always"
       \/ i.restart = "on-failure" /\ i.exit # 0

DesiredFor(start) == IF start THEN "running" ELSE "stopped"

StatusFrom(c) == IF c.state = "running" THEN "running" ELSE "stopped"

(* A persisted entry brought up to date with the container found for it.   *)
Refreshed(p, c) ==
    [p EXCEPT !.status = StatusFrom(c),
              !.exit   = IF c.state = "running" THEN 0 ELSE c.exit]

(* An entry rebuilt from the labels alone: desired and restart are those   *)
(* of the creation, and the suspended mark and the exit code are lost.     *)
FromLabels(c) ==
    [status |-> StatusFrom(c), desired |-> c.desired, restart |-> c.restart,
     suspended |-> FALSE, exit |-> 0]

(* What a reconcile pass makes of the persisted entry p and the live       *)
(* container c of one id; either may be None.                              *)
Reconciled(p, c) ==
    CASE p # None /\ c # None -> Refreshed(p, c)
      [] p = None /\ c # None -> FromLabels(c)
      [] p # None /\ c = None /\ p.status # "creating" ->
            [p EXCEPT !.status = "missing"]
      [] OTHER -> None

(* Adopted, pruned, missing or unclean: the pass must rewrite the file.    *)
Drifted(p, c) ==
    \/ (p = None) # (c = None)
    \/ p # None /\ c # None /\ c.state # "running" /\ c.exit # 0

=============================================================================

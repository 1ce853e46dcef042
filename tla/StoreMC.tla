------------------------------- MODULE StoreMC -------------------------------
(* Finite instances of Store for TLC.                                       *)
EXTENDS Store, TLC

CONSTANTS t1, t2, e1

ThreadSymmetry == Permutations(Threads)

(* A window once gone through stays open, and most properties of the run    *)
(* say nothing from there on: such states are not explored further.  Only   *)
(* AlarmsReal looks at "raced", so behaviours go on from there.             *)
NoWindow == windows \subseteq {"raced"}

=============================================================================

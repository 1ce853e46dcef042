------------------------------- MODULE PortsMC -------------------------------
(* Finite instances of Ports for TLC: a range of three ports and one pinned *)
(* port outside it, bases inside the range and below it.                    *)
EXTENDS Ports, TLC

CONSTANTS a, b, c

IdSymmetry == Permutations(Ids)

=============================================================================

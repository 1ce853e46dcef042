------------------------------ MODULE ManagerMC ------------------------------
(* Finite instances of Manager for TLC.                                    *)
EXTENDS ManagerClaims, TLC

CONSTANTS c1, c2, s

(* Clients are interchangeable; ids are not (they are worked on in order). *)
ClientSymmetry == Permutations(Clients)

(* A window once gone through stays open, and the properties that name     *)
(* windows say nothing from there on: such states are not explored further.*)
NoWindow == windows = {}

=============================================================================

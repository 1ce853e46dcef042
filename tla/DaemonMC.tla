------------------------------ MODULE DaemonMC ------------------------------
(* Finite instances of Daemon for TLC.                                     *)
EXTENDS Daemon

CONSTANTS c1, c2, d1, d2
=============================================================================

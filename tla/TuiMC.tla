------------------------------- MODULE TuiMC -------------------------------
(* The terminal interface for TLC: sessions that put together what meets.    *)
EXTENDS Tui, TLC

One == (1 :> "running") @@ (2 :> "none")
Nothing == (1 :> "none") @@ (2 :> "none")
Two == (1 :> "running") @@ (2 :> "stopped")

Destroying == [keys |-> {"d", "j"}, elsewhere |-> {"remove"}, world |-> Two,
               names |-> {}, flight |-> 3]
Recreating == [keys |-> {"n"}, elsewhere |-> {"remove"}, world |-> Nothing,
               names |-> {2}, flight |-> 5]
Streaming  == [keys |-> {"l", "c"}, elsewhere |-> {}, world |-> One,
               names |-> {}, flight |-> 4]
Straying   == [keys |-> {"c", "n"}, elsewhere |-> {}, world |-> One,
               names |-> {2}, flight |-> 5]
Quitting   == [keys |-> {"q", "c", "u"}, elsewhere |-> {"down", "up"}, world |-> One,
               names |-> {}, flight |-> 3]
Toggling   == [keys |-> {"s", "R", "r"}, elsewhere |-> {"toggle", "create", "upgrade"},
               world |-> One, names |-> {2}, flight |-> 3]

AllSessions == {Destroying, Recreating, Streaming, Straying, Quitting, Toggling}
=============================================================================

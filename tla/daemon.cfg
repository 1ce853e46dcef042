SPECIFICATION FairSpec
CONSTANTS
    c1 = c1
    c2 = c2
    Clients = {c1, c2}
    d1 = d1
    d2 = d2
    Daemons = {d1, d2}
    Unit = d1
    Nobody = Nobody
    Troubles = 2
    Faults = {"kill", "term", "hand", "fail", "shutdown", "stop"}
INVARIANTS TypeOK SocketIsItsOwn ShutdownTrue LaunchHolds
PROPERTIES ShutdownEnds ComesUp

SPECIFICATION Spec
CONSTANTS
    None = None
    c1 = c1
    c2 = c2
    s = s
    Ids = {1}
    Clients = {c1, c2}
    Supervisor = s
    Ops = {"create", "createStopped", "start", "stop", "remove"}
    Policies = {"always"}
    Faults = {"crash"}
    Events = {"exit", "forget"}
SYMMETRY ClientSymmetry
CONSTRAINT NoWindow
INVARIANTS IntentKept StopIsKept DataUnderContainer
PROPERTIES Isolation ImplementsOwnership

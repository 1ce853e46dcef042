SPECIFICATION Spec
CONSTANTS
    None = None
    c1 = c1
    c2 = c2
    s = s
    Ids = {1}
    Clients = {c1}
    Supervisor = s
    Ops = {"stop", "restart", "remove", "create", "restore", "suspend"}
    Policies = {"on-failure"}
    Faults = {"podman", "disk", "crash"}
    Events = {"exit", "rm", "forget"}
CONSTRAINT NoWindow
INVARIANTS IInv IntentKept NoOrphan

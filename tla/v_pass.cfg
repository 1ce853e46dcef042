SPECIFICATION Spec
CONSTANTS
    None = None
    c1 = c1
    c2 = c2
    s = s
    Ids = {1}
    Clients = {c1}
    Supervisor = s
    Ops = {"create", "stop"}
    Policies = {"always"}
    Faults = {}
    Events = {}
INVARIANT StopSurvivesPass

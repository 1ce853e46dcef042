SPECIFICATION Spec
CONSTANTS
    None = None
    c1 = c1
    c2 = c2
    s = s
    Ids = {1, 2}
    Clients = {c1}
    Supervisor = s
    Ops = {"create", "policy", "suspend"}
    Policies = {"no", "always"}
    Faults = {"crash"}
    Events = {}
CONSTRAINT NoWindow
INVARIANTS WriteThrough QuitStopsAll
PROPERTIES ResumeAfterQuit

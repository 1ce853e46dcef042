SPECIFICATION LiveSpec
CONSTANTS
    None = None
    c1 = c1
    c2 = c2
    s = s
    Ids = {1, 2}
    Clients = {c1, c2}
    Supervisor = s
    Ops = {"create", "policy", "restart", "suspend"}
    Policies = {"always"}
    Faults = {"crash"}
    Events = {"exit"}
VIEW WithoutHistory
INVARIANT NobodyHoldsAndWaits
PROPERTIES RequestsEnd CrashedComesBack

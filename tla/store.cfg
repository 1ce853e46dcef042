SPECIFICATION Spec
CONSTANTS
    None = None
    t1 = t1
    t2 = t2
    e1 = e1
    Threads = {t1, t2}
    Edits = {e1}
    MaxBody = 2
    Faults = {"disk", "crash"}
SYMMETRY ThreadSymmetry
CONSTRAINT NoWindow
INVARIANTS TypeOK EditsNotSilentlyLost OriginalKept NewerLeftAlone Upgraded AlarmsReal

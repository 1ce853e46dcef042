SPECIFICATION Spec
CONSTANTS
    None = None
    a = a
    b = b
    c = c
    Low = 2
    High = 4
    Ids = {a, b, c}
    Ports = {2, 3, 4, 6}
    Bases = {0, 2, 3, 4}
SYMMETRY IdSymmetry
INVARIANTS TypeOK SharedOnlyByOverlap AllocatorExact

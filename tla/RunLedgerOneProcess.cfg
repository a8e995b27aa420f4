SPECIFICATION Spec
SYMMETRY RequestSymmetry
CONSTANTS
    Processes = {p1}
    Keys = {k1}
    Payloads = {x1}
    Posts = {q1, q2}
    Reviews = {v1, v2}
    Exports = {e1, e2, e3}
    MaxFaults = 1
    None = None
INVARIANTS
    ReviewedOnce
    UndisturbedExportRepairs
    CaseUnlessIngestFails
PROPERTIES
    ImplementsRecord
CHECK_DEADLOCK FALSE

SPECIFICATION Spec
SYMMETRY RequestSymmetry
CONSTANTS
    Processes = {p1}
    Keys = {k1}
    Payloads = {x1, x2}
    Posts = {q1}
    Reviews = {v1}
    Exports = {e1}
    MaxFaults = 0
    None = None
INVARIANTS
    ExportShowsOneState
CHECK_DEADLOCK FALSE

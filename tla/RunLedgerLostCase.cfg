SPECIFICATION Spec
CONSTANTS
    Processes = {p1}
    Keys = {k1}
    Payloads = {x1, x2}
    Posts = {q1, q2}
    Reviews = {v1}
    Exports = {e1}
    MaxFaults = 1
    None = None
PROPERTIES
    AnsweredRunHasCase
CHECK_DEADLOCK FALSE

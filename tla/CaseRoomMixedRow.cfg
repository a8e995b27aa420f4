SPECIFICATION Spec
CONSTANTS
    Requests = {r1, r2}
    None = None
INVARIANTS
    RowIsOneClosing
CHECK_DEADLOCK FALSE

SPECIFICATION Spec
CONSTANTS
    Requests = {r1, r2}
    None = None
INVARIANTS
    OneClosingSucceeds
CHECK_DEADLOCK FALSE

SPECIFICATION Spec
CONSTANTS
    Guids = {g1, g2}
    Hooks = {h1, h2}
    Runs = {k1}
    Receipts = {r1}
    MaxFaults = 0
    None = None
INVARIANTS
    MatchingCheckRunIsUpdated
CHECK_DEADLOCK FALSE

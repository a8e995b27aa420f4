SPECIFICATION Spec
CONSTANTS
    Guids = {g1, g2}
    Hooks = {h1, h2}
    Runs = {k1}
    Receipts = {r1}
    MaxFaults = 1
    None = None
PROPERTIES
    HandlersFinish
CHECK_DEADLOCK FALSE

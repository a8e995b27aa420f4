SPECIFICATION Spec
CONSTANTS
    Runs = {k1}
    Flushes = {f1}
    Bundles = {}
    Limit = 2
    Immutable = FALSE
    MaxFaults = 0
    MaxRefusals = 1
INVARIANTS
    ForwardedWasAccepted
CHECK_DEADLOCK FALSE

SPECIFICATION Spec
CONSTANTS
    Runs = {k1, k2}
    Flushes = {f1}
    Bundles = {}
    Limit = 2
    Immutable = FALSE
    MaxFaults = 2
    MaxRefusals = 0
PROPERTIES
    EveryEventIsForwarded
CHECK_DEADLOCK FALSE

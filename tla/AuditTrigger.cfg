SPECIFICATION Spec
CONSTANTS
    Runs = {k1}
    Flushes = {f1}
    Bundles = {}
    Limit = 2
    Immutable = TRUE
    MaxFaults = 0
    MaxRefusals = 0
PROPERTIES
    EveryEventIsForwarded
CHECK_DEADLOCK FALSE

SPECIFICATION Spec
CONSTANTS
    Runs = {k1, k2}
    Flushes = {f1, f2}
    Bundles = {b1}
    Limit = 2
    Immutable = FALSE
    MaxFaults = 1
    MaxRefusals = 1
SYMMETRY Symmetry
INVARIANTS
    NothingLost
    NoneOvertaken
    BundleIsCausal
    BundleMeetsItsDays
CHECK_DEADLOCK FALSE

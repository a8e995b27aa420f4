CONSTANTS
    k1 = k1
    k2 = k2
    None = None
    Default = Default
    Runs <- Keys
    Decisions = {"allow", "review"}
    MaxCalls = 2
SPECIFICATION Spec
SYMMETRY Symmetry
CHECK_DEADLOCK FALSE
INVARIANT ExistingRunsCanBeMigrated

SPECIFICATION Spec
CONSTANTS
    Jobs = {j1, j2}
    Readers = {r1}
    Systems = {"jenkins", "actions", "agent"}
    MaxFiles = 1
    Worlds <- SomeWorlds
    Enforced <- EnforceBoth
    Seconds = {1}
    PoolSize = 1
    MaxCommits = 1
    Offered <- TwoPolicies
    None = None
INVARIANTS
    GreenMeansRecorded
    KnownBadNeverGreen
PROPERTIES
    RequestsEnd
CHECK_DEADLOCK FALSE

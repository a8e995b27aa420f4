SPECIFICATION Spec
CONSTANTS
    Processes = {p1}
    Repos = {a, b}
    Sources = {s1}
    Offered <- TwoSettings
    Receipts <- FailedTests
    Creates = {c1, c2}
    Deactivates = {d1, d2}
    Ingests = {i1, i2}
    None = None
    Lines = {1, 501}
SYMMETRY RequestSymmetry
INVARIANTS
    VersionsNameConfigs
    SnapshotExplainsRun
    SourcesTellTheirRuns
    AllowedMeansClean
    NeverSofter
PROPERTIES
    NoNewerConfigIgnored
CHECK_DEADLOCK FALSE

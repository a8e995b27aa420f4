SPECIFICATION Spec
CONSTANTS
    Guids = {g1, g2}
    Hooks = {h1, h2, h3}
    Runs = {k1, k2}
    Receipts = {r1, r2}
    MaxFaults = 1
    None = None
SYMMETRY Symmetry
INVARIANTS
    RedeliveryCreatesNothing
    RowNeverAheadOfGitHub
    LoneReceiptRepairs
    EachDeliverySettles
    NewestIsCompleted
CHECK_DEADLOCK FALSE

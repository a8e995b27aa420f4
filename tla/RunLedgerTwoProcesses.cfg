SPECIFICATION Spec
SYMMETRY RequestSymmetry
CONSTANTS
    Processes = {p1, p2}
    Keys = {k1}
    Payloads = {x1, x2}
    Posts = {q1, q2}
    Reviews = {v1, v2}
    Exports = {e1}
    MaxFaults = 1
    None = None
INVARIANTS
    RepliesAgree
    RowMatchesHistory
    HistoryIsChain
    AtMostOneCase
    AuditMatchesLedger
    PackShowsCommitted
PROPERTIES
    HistoryOnlyGrows
CHECK_DEADLOCK FALSE

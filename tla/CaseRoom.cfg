SPECIFICATION Spec
CONSTANTS
    Requests = {r1, r2, r3}
    None = None
SYMMETRY RequestSymmetry
INVARIANTS
    EveryEventLeadsBack
    EventsTellAll
    SeenIsBehind
PROPERTIES
    OnlyGrows
CHECK_DEADLOCK FALSE

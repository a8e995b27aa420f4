SPECIFICATION Spec
CONSTANTS
    Users = {u1}
    Requests = {r1, r2, r3, r4, r5}
    GivenRoles = {"viewer", "reviewer"}
    None = None
SYMMETRY Symmetry
INVARIANTS
    SessionsCarryTheirRole
    InactiveIsShutOut
PROPERTIES
    RevokedForGood
CHECK_DEADLOCK FALSE

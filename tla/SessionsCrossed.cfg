SPECIFICATION Spec
CONSTANTS
    Users = {u1}
    Requests = {r1, r2, r3}
    GivenRoles = {"viewer", "reviewer"}
    None = None
SYMMETRY Symmetry
INVARIANTS
    DeactivatedIsRevoked
CHECK_DEADLOCK FALSE
